---------------------------- MODULE Spec2Model ----------------------------
(***************************************************************************)
(* A model of the contract runtime of anthonyiovanna/blockchain            *)
(* (src/blockchain/src/contract/{mod,access,registry,state}.rs and         *)
(* src/blockchain/src/msg.rs).                                             *)
(*                                                                         *)
(* Conventions                                                             *)
(*  - A [u8; 32] address or role that the code writes [n; 32] is the       *)
(*    number n.                                                            *)
(*  - A byte string (Vec<u8>) is a run-length encoded sequence of          *)
(*    <<byte, count>> runs in canonical form, so that strings as long as   *)
(*    the size caps of state.rs can be written down.                       *)
(*  - A HashMap is a function whose DOMAIN is the set of keys present; a   *)
(*    Vec or VecDeque is a sequence.  A contract state of MAX_ENTRIES      *)
(*    entries keeps most of them as one run of entries (BulkKeys), and its *)
(*    diff log the diffs that added them as one run (DiffCount counts      *)
(*    them).                                                               *)
(*  - The library is built with or without cfg(test) (cfg_test): the unit  *)
(*    tests of the crate see the first build, every binary and every       *)
(*    integration test the second.                                         *)
(*  - A Result is a string: "Ok" or the name of the ContractError variant. *)
(*  - Instant::now() and SystemTime::now() are the one clock `now`,        *)
(*    counted in whole seconds.                                            *)
(*  - SHA-256 is taken to be collision free: a digest is the byte stream   *)
(*    that was fed to the hasher.                                          *)
(*  - Every method of the Rust structs is an operator from the struct      *)
(*    value (and the arguments) to the new struct value and the result.    *)
(*                                                                         *)
(* Specifications                                                          *)
(*  - SpecTracker: the OperationTracker alone (start, end, time).          *)
(*  - SpecAccess: AccessControl alone, from AccessControl::new().          *)
(*  - SpecState: the StateManager alone, from StateManager::new().         *)
(*  - SpecCaps: the StateManager with one address at or near its size      *)
(*    caps.                                                                *)
(*  - Spec: the ContractRuntime facade, after setup_runtime() of          *)
(*    tests/version_test.rs.                                               *)
(*  - SpecPair: the same facade over two addresses.                        *)
(*  - SpecVariants: the facade with the bytecode, the ABI, the state key   *)
(*    and the arguments of loop_test varied.                               *)
(*  - SpecGate: tasks sharing one runtime behind a reader-writer gate.     *)
(*  - SpecLimits: the facade around check_upgrade_limits, with versions    *)
(*    deployed before and timestamps the caller chooses.                   *)
(*  - SpecAbandoned: the OperationTracker when no operation is ended.      *)
(*  - SpecExecute: the facade with execute_contract naming a version.      *)
(*  - SpecRegistry: the ContractRegistry alone (register, rollback).       *)
(*  - SpecAdmission: the facade with the tracker at its limits.            *)
(*  - SpecSenders: tasks that set the caller slot, each calling its own    *)
(*    runtime.                                                             *)
(*  - SpecRollback: the facade with the calls that lead to a rollback,     *)
(*    one call more than Spec makes.                                       *)
(*  - SpecPoisoned: the facade with the lock of the caller slot poisoned.  *)
(*  - SpecOrder: the facade with version strings that carry a pre-release  *)
(*    or build metadata.                                                   *)
(***************************************************************************)
EXTENDS Integers, Sequences, FiniteSets, Bags, TLC

VARIABLES
    now,                \* the clock, in seconds
    TEST_SENDER,        \* msg.rs: the process-wide caller slot
    access_control,     \* ContractRuntime.access_control
    registry,           \* ContractRuntime.registry
    state_manager,      \* ContractRuntime.state_manager
    operation_tracker,  \* ContractRuntime.operation_tracker
    ret,                \* the last call: its name, arguments and result
    steps,              \* number of calls and clock steps taken so far
    admin_granted,      \* history: a grant of DEFAULT_ADMIN_ROLE has succeeded
    upgraded,           \* history: per address, what the last upgrade replaced
    tasks,              \* the spawned tasks, and the gate of a shared runtime
    cfg_test            \* the build: whether the library is compiled with cfg(test)

vars == <<now, TEST_SENDER, access_control, registry, state_manager,
          operation_tracker, ret, steps, admin_granted, upgraded, tasks,
          cfg_test>>

---------------------------------------------------------------------------
(* Maps, sequences *)

EmptyMap == << >>

Put(m, k, v) == [x \in (DOMAIN m) \cup {k} |-> IF x = k THEN v ELSE m[x]]

Remove(m, k) == [x \in (DOMAIN m) \ {k} |-> m[x]]

RECURSIVE SumSeq(_)
SumSeq(s) == IF s = << >> THEN 0 ELSE Head(s) + SumSeq(Tail(s))

\* the sum of f[x] over x in S, f[x] >= 0: the size of the bag that holds each x
\* f[x] + 1 times, less one for every x
SumOver(S, f) == BagCardinality([x \in S |-> f[x] + 1]) - Cardinality(S)

\* push onto the Vec at m[k], creating it when absent (entry().or_insert_with(Vec::new).push)
PushAt(m, k, v) == Put(m, k, (IF k \in DOMAIN m THEN m[k] ELSE << >>) \o <<v>>)

---------------------------------------------------------------------------
(* Byte strings *)

RECURSIVE BLen(_)
BLen(b) == IF b = << >> THEN 0 ELSE Head(b)[2] + BLen(Tail(b))

\* a ++ b, kept canonical
BConcat(a, b) ==
    IF a = << >> THEN b
    ELSE IF b = << >> THEN a
    ELSE IF a[Len(a)][1] = b[1][1]
         THEN SubSeq(a, 1, Len(a) - 1) \o <<<<b[1][1], a[Len(a)][2] + b[1][2]>>>> \o Tail(b)
         ELSE a \o b

\* a < b in the byte-wise lexicographic order of Vec<u8>
RECURSIVE BLess(_, _)
BLess(a, b) ==
    IF b = << >> THEN FALSE
    ELSE IF a = << >> THEN TRUE
    ELSE IF a[1][1] # b[1][1] THEN a[1][1] < b[1][1]
    ELSE IF a[1][2] = b[1][2] THEN BLess(Tail(a), Tail(b))
    ELSE IF a[1][2] < b[1][2]
         THEN BLess(Tail(a), <<<<b[1][1], b[1][2] - a[1][2]>>>> \o Tail(b))
         ELSE BLess(<<<<a[1][1], a[1][2] - b[1][2]>>>> \o Tail(a), Tail(b))

\* b"_initialized"
B_initialized ==
    << <<95, 1>>, <<105, 1>>, <<110, 1>>, <<105, 1>>, <<116, 1>>, <<105, 1>>,
       <<97, 1>>, <<108, 1>>, <<105, 1>>, <<122, 1>>, <<101, 1>>, <<100, 1>> >>

---------------------------------------------------------------------------
(* contract/mod.rs: constants *)

DEFAULT_ADMIN_ROLE == 0
DEPLOYER_ROLE == 1
EXECUTOR_ROLE == 2
UPGRADER_ROLE == 3

MAX_UPGRADES_PER_DAY == 5
MIN_UPGRADE_INTERVAL == 3600
MAX_UPGRADE_SIZE == 2097152
SECONDS_PER_DAY == 86400

MAX_CONCURRENT_OPERATIONS == 100
MAX_OPERATIONS_PER_SECOND == 1000
MAX_OPERATIONS_PER_CONTRACT == 10
OPERATION_TIMEOUT == 30
OPERATION_HISTORY_WINDOW == 60
ONE_SECOND == 1

OperationType == {"Deploy", "Upgrade", "Execute", "StateUpdate", "Rollback"}

---------------------------------------------------------------------------
(* contract/mod.rs: OperationTracker *)

OperationTracker_new ==
    [active_operations |-> EmptyMap, operation_history |-> << >>]

\* self.active_operations.values().map(|ops| ops.len()).sum()
TotalOperations(self) ==
    SumOver(DOMAIN self.active_operations,
            [a \in DOMAIN self.active_operations |-> Len(self.active_operations[a])])

\* the history entries within the last second, as seen at time t
RecentOps(self, t) ==
    LET Recent(e) == t - e[1] < ONE_SECOND
    IN  Len(SelectSeq(self.operation_history, Recent))

\* while let Some(front) = history.front() { if expired { pop_front } else { break } }
PopExpiredHistory(h, t) ==
    LET fresh == {i \in 1..Len(h) : ~(t - h[i][1] > OPERATION_HISTORY_WINDOW)}
        first == IF fresh = {} THEN Len(h) + 1
                 ELSE CHOOSE i \in fresh : \A j \in fresh : i <= j
    IN  SubSeq(h, first, Len(h))

\* cleanup_expired_operations dropping old history only, never an active entry
cleanup_expired_operations_history(self, t) ==
    [self EXCEPT !.operation_history = PopExpiredHistory(self.operation_history, t)]

cleanup_expired_operations(self, t) ==
    LET Alive(op) == t - op.start_time < OPERATION_TIMEOUT
        kept == [a \in DOMAIN self.active_operations |->
                    SelectSeq(self.active_operations[a], Alive)]
        keys == {a \in DOMAIN kept : kept[a] # << >>}
    IN  [active_operations |-> [a \in keys |-> kept[a]],
         operation_history |-> PopExpiredHistory(self.operation_history, t)]

\* check_operation_limits refusing only above each limit, not at it
check_operation_limits_above(self, contract_addr, op_type, t) ==
    LET s1 == cleanup_expired_operations(self, t)
    IN  IF TotalOperations(s1) > MAX_CONCURRENT_OPERATIONS
        THEN [self |-> s1, res |-> "ConcurrencyLimitExceeded"]
        ELSE IF RecentOps(s1, t) > MAX_OPERATIONS_PER_SECOND
        THEN [self |-> s1, res |-> "ConcurrencyLimitExceeded"]
        ELSE LET s2 == [s1 EXCEPT !.active_operations =
                            IF contract_addr \in DOMAIN @ THEN @
                            ELSE Put(@, contract_addr, << >>)]
             IN  IF Len(s2.active_operations[contract_addr]) > MAX_OPERATIONS_PER_CONTRACT
                 THEN [self |-> s2, res |-> "ConcurrencyLimitExceeded"]
                 ELSE [self |-> s2, res |-> "Ok"]

check_operation_limits(self, contract_addr, op_type, t) ==
    LET s1 == cleanup_expired_operations(self, t)
    IN  IF TotalOperations(s1) >= MAX_CONCURRENT_OPERATIONS
        THEN [self |-> s1, res |-> "ConcurrencyLimitExceeded"]
        ELSE IF RecentOps(s1, t) >= MAX_OPERATIONS_PER_SECOND
        THEN [self |-> s1, res |-> "ConcurrencyLimitExceeded"]
        ELSE LET s2 == [s1 EXCEPT !.active_operations =
                            IF contract_addr \in DOMAIN @ THEN @
                            ELSE Put(@, contract_addr, << >>)]
             IN  IF Len(s2.active_operations[contract_addr]) >= MAX_OPERATIONS_PER_CONTRACT
                 THEN [self |-> s2, res |-> "ConcurrencyLimitExceeded"]
                 ELSE [self |-> s2, res |-> "Ok"]

\* start_operation writing the history entry before it checks the limits
start_operation_logging_first(self, contract_addr, op_type, t) ==
    LET c == check_operation_limits(self, contract_addr, op_type, t)
        metrics == [operation_type |-> op_type, start_time |-> t,
                    contract_addr |-> contract_addr]
    IN  IF c.res # "Ok"
        THEN [self |-> [c.self EXCEPT !.operation_history = Append(@, <<t, op_type>>)],
              res |-> c.res]
        ELSE [self |-> [active_operations |->
                            PushAt(c.self.active_operations, contract_addr, metrics),
                        operation_history |->
                            Append(c.self.operation_history, <<t, op_type>>)],
              res |-> "Ok"]

start_operation(self, contract_addr, op_type, t) ==
    LET c == check_operation_limits(self, contract_addr, op_type, t)
        metrics == [operation_type |-> op_type, start_time |-> t,
                    contract_addr |-> contract_addr]
    IN  IF c.res # "Ok" THEN c
        ELSE [self |-> [active_operations |->
                            PushAt(c.self.active_operations, contract_addr, metrics),
                        operation_history |->
                            Append(c.self.operation_history, <<t, op_type>>)],
              res |-> "Ok"]

end_operation(self, contract_addr, op_type) ==
    IF contract_addr \in DOMAIN self.active_operations
    THEN LET Other(op) == op.operation_type # op_type
             ops == SelectSeq(self.active_operations[contract_addr], Other)
         IN  [self EXCEPT !.active_operations =
                    IF ops = << >> THEN Remove(@, contract_addr)
                    ELSE [@ EXCEPT ![contract_addr] = ops]]
    ELSE self

---------------------------------------------------------------------------
(* msg.rs: the ambient caller *)

\* TEST_SENDER: RwLock<Option<[u8; 32]>>; value is << >> (None) or <<a>> (Some(a))
TestSender_new == [poisoned |-> FALSE, value |-> << >>]

\* msg::sender(). In a build with cfg(test): Err when the lock is poisoned,
\* [1u8; 32] when the slot is empty, else the address in the slot. In every
\* other build (the library as a binary or an integration test links it):
\* [0u8; 32], whatever the slot holds.
sender(slot, in_test) ==
    IF ~in_test THEN [ok |-> TRUE, addr |-> 0]
    ELSE IF slot.poisoned THEN [ok |-> FALSE, addr |-> 0]
    ELSE IF slot.value = << >> THEN [ok |-> TRUE, addr |-> 1]
    ELSE [ok |-> TRUE, addr |-> slot.value[1]]

set_sender(slot, addr) ==
    IF slot.poisoned THEN slot ELSE [slot EXCEPT !.value = <<addr>>]

clear_sender(slot) ==
    IF slot.poisoned THEN slot ELSE [slot EXCEPT !.value = << >>]

---------------------------------------------------------------------------
(* contract/access.rs: AccessControl *)

AccessControl_new ==
    [roles |-> EmptyMap,
     role_admins |-> Put(EmptyMap, DEFAULT_ADMIN_ROLE, DEFAULT_ADMIN_ROLE)]

AccessControl_has_role(self, role, account) ==
    IF role \in DOMAIN self.roles /\ account \in DOMAIN self.roles[role]
    THEN self.roles[role][account]
    ELSE FALSE

check_role(self, role, account) ==
    IF AccessControl_has_role(self, role, account) THEN "Ok" ELSE "AccessDenied"

\* get_role_admin ignoring the role-admin map
get_role_admin_default(self, role) == DEFAULT_ADMIN_ROLE

get_role_admin(self, role) ==
    IF role \in DOMAIN self.role_admins THEN self.role_admins[role]
    ELSE DEFAULT_ADMIN_ROLE

\* is_first_admin asking only for the role, whatever was granted before
is_first_admin_always(self, role) == role = DEFAULT_ADMIN_ROLE

\* is_first_admin asking whether any account holds the role now
is_first_admin_no_holder(self, role) ==
    role = DEFAULT_ADMIN_ROLE
    /\ (DEFAULT_ADMIN_ROLE \in DOMAIN self.roles
        => \A a \in DOMAIN self.roles[DEFAULT_ADMIN_ROLE] :
              ~self.roles[DEFAULT_ADMIN_ROLE][a])

\* the bootstrap case of grant_role
is_first_admin(self, role) ==
    role = DEFAULT_ADMIN_ROLE /\ DEFAULT_ADMIN_ROLE \notin DOMAIN self.roles

\* grant_role acting as a toggle: a grant to a holder takes the role away
AccessControl_grant_role_toggle(self, role, account, snd) ==
    IF ~snd.ok THEN [self |-> self, res |-> "ExecutionError", val |-> FALSE]
    ELSE IF ~is_first_admin(self, role)
            /\ check_role(self, get_role_admin(self, role), snd.addr) # "Ok"
    THEN [self |-> self, res |-> "AccessDenied", val |-> FALSE]
    ELSE IF AccessControl_has_role(self, role, account)
    THEN [self |-> [self EXCEPT !.roles = [@ EXCEPT ![role] = Remove(@, account)]],
          res |-> "Ok", val |-> FALSE]
    ELSE [self |-> [self EXCEPT !.roles =
                        Put(@, role, Put(IF role \in DOMAIN @ THEN @[role] ELSE EmptyMap,
                                         account, TRUE))],
          res |-> "Ok", val |-> TRUE]

\* snd is the value of msg::sender(); val is the bool of Ok(bool)
AccessControl_grant_role(self, role, account, snd) ==
    IF ~snd.ok THEN [self |-> self, res |-> "ExecutionError", val |-> FALSE]
    ELSE IF ~is_first_admin(self, role)
            /\ check_role(self, get_role_admin(self, role), snd.addr) # "Ok"
    THEN [self |-> self, res |-> "AccessDenied", val |-> FALSE]
    ELSE IF AccessControl_has_role(self, role, account)
    THEN [self |-> self, res |-> "Ok", val |-> FALSE]
    ELSE [self |-> [self EXCEPT !.roles =
                        Put(@, role, Put(IF role \in DOMAIN @ THEN @[role] ELSE EmptyMap,
                                         account, TRUE))],
          res |-> "Ok", val |-> TRUE]

revoke_role(self, role, account, snd) ==
    IF ~snd.ok THEN [self |-> self, res |-> "ExecutionError", val |-> FALSE]
    ELSE IF check_role(self, get_role_admin(self, role), snd.addr) # "Ok"
    THEN [self |-> self, res |-> "AccessDenied", val |-> FALSE]
    ELSE IF ~AccessControl_has_role(self, role, account)
    THEN [self |-> self, res |-> "Ok", val |-> FALSE]
    ELSE [self |-> [self EXCEPT !.roles =
                        IF role \in DOMAIN @
                        THEN [@ EXCEPT ![role] = Remove(@, account)]
                        ELSE @],
          res |-> "Ok", val |-> TRUE]

\* set_role_admin without the refusal for DEFAULT_ADMIN_ROLE
set_role_admin_any(self, role, admin_role, snd) ==
    IF ~snd.ok THEN [self |-> self, res |-> "ExecutionError"]
    ELSE IF check_role(self, get_role_admin(self, role), snd.addr) # "Ok"
    THEN [self |-> self, res |-> "AccessDenied"]
    ELSE [self |-> [self EXCEPT !.role_admins = Put(@, role, admin_role)],
          res |-> "Ok"]

set_role_admin(self, role, admin_role, snd) ==
    IF ~snd.ok THEN [self |-> self, res |-> "ExecutionError"]
    ELSE IF check_role(self, get_role_admin(self, role), snd.addr) # "Ok"
    THEN [self |-> self, res |-> "AccessDenied"]
    ELSE IF role = DEFAULT_ADMIN_ROLE
    THEN [self |-> self, res |-> "InvalidOperation"]
    ELSE [self |-> [self EXCEPT !.role_admins = Put(@, role, admin_role)],
          res |-> "Ok"]

\* the accounts that hold role
Holders(self, role) ==
    IF role \in DOMAIN self.roles
    THEN {a \in DOMAIN self.roles[role] : self.roles[role][a]}
    ELSE {}

---------------------------------------------------------------------------
(* contract/state.rs: StateManager *)

MAX_STATE_SIZE == 104857600
MAX_KEY_SIZE == 1024
MAX_VALUE_SIZE == 1048576
MAX_ENTRIES == 100000
SCHEMA_VERSION == 1

StateManager_new == [states |-> EmptyMap, snapshots |-> EmptyMap, diffs |-> EmptyMap]

\* the decimal digits of i, as bytes
RECURSIVE Decimal(_)
Decimal(i) ==
    IF i < 10 THEN <<<<48 + i, 1>>>>
    ELSE BConcat(Decimal(i \div 10), <<<<48 + (i % 10), 1>>>>)

\* format!("key{}", i).into_bytes()
KeyN(i) == << <<107, 1>>, <<101, 1>>, <<121, 1>> >> \o Decimal(i)

\* the number of i in 0..(n - 1) that have d decimal digits or more, summed over
\* d = from, from + 1, ...: with from = 1, the digits of 0, ..., n - 1 together
RECURSIVE DigitsBelow(_, _, _)
DigitsBelow(n, low, from) ==
    IF (IF from = 1 THEN 0 ELSE low) >= n THEN 0
    ELSE (n - (IF from = 1 THEN 0 ELSE low)) + DigitsBelow(n, low * 10, from + 1)

\* the bytes of the keys "key0", ..., "key(n-1)" together
KeyRunBytes(n) == 3 * n + DigitsBelow(n, 1, 1)

(* A run of entries. Like a byte string, a state map is kept run-length       *)
(* encoded: the key BulkKeys is no byte string of the program but stands for  *)
(* the run of keys "key0", ..., "key(n-1)" of test_max_entries_limit, which   *)
(* no call of the model names, and its value <<<<1, n>>>> is the n one-byte   *)
(* values [1] of the run, one for each key. Every other key is one entry.     *)
(* In the same way a StateDiff whose `added` is a run of n entries stands for *)
(* the n diffs, of one added key each, that the n updates pushed.             *)
BulkKeys == <<<<256, 4>>>>

\* the number of entries that key k stands for
EntriesAt(state, k) == IF k = BulkKeys THEN BLen(state[k]) ELSE 1

\* k.len() + v.len(), summed over the entries that key k stands for
BytesAt(state, k) ==
    IF k = BulkKeys THEN KeyRunBytes(BLen(state[k])) + BLen(state[k])
    ELSE BLen(k) + BLen(state[k])

\* the number of diffs that the element d of a diff log stands for
DiffsAt(d) == IF BulkKeys \in DOMAIN d.added THEN EntriesAt(d.added, BulkKeys) ELSE 1

\* diffs.len() of a diff log
RECURSIVE DiffCount(_)
DiffCount(log) == IF log = << >> THEN 0 ELSE DiffsAt(Head(log)) + DiffCount(Tail(log))

\* state.len()
state_len(state) ==
    SumOver(DOMAIN state, [k \in DOMAIN state |-> EntriesAt(state, k)])

calculate_state_size(state) ==
    SumOver(DOMAIN state, [k \in DOMAIN state |-> BytesAt(state, k)])

\* validate_state_update without the check of the number of entries
validate_state_update_no_entry_cap(state, new_key, new_value) ==
    IF BLen(new_key) > MAX_KEY_SIZE THEN "StateError"
    ELSE IF BLen(new_value) > MAX_VALUE_SIZE THEN "StateError"
    ELSE LET size0 == calculate_state_size(state)
             size1 == IF new_key \in DOMAIN state
                      THEN size0 - (BLen(new_key) + BLen(state[new_key]))
                      ELSE size0
             total_size == size1 + (BLen(new_key) + BLen(new_value))
         IN  IF total_size > MAX_STATE_SIZE THEN "StateError"
             ELSE "Ok"

validate_state_update(state, new_key, new_value) ==
    IF BLen(new_key) > MAX_KEY_SIZE THEN "StateError"
    ELSE IF BLen(new_value) > MAX_VALUE_SIZE THEN "StateError"
    ELSE LET size0 == calculate_state_size(state)
             size1 == IF new_key \in DOMAIN state
                      THEN size0 - (BLen(new_key) + BLen(state[new_key]))
                      ELSE size0
             total_size == size1 + (BLen(new_key) + BLen(new_value))
         IN  IF total_size > MAX_STATE_SIZE THEN "StateError"
             ELSE IF new_key \notin DOMAIN state /\ state_len(state) >= MAX_ENTRIES
             THEN "StateError"
             ELSE "Ok"

\* keys.sort(): the keys in ascending byte order
RECURSIVE SortedKeys(_)
SortedKeys(S) ==
    IF S = {} THEN << >>
    ELSE LET m == CHOOSE k \in S :
                      Cardinality({o \in S : BLess(o, k)}) = Cardinality(S) \div 2
         IN  SortedKeys({o \in S : BLess(o, m)}) \o <<m>>
                \o SortedKeys({o \in S : BLess(m, o)})

\* the bytes fed to the hasher: key, value, key, value, ... in the order of keys
RECURSIVE HashFeed(_, _)
HashFeed(keys, state) ==
    IF keys = << >> THEN << >>
    ELSE IF Len(keys) = 1 THEN BConcat(keys[1], state[keys[1]])
    ELSE LET mid == Len(keys) \div 2
         IN  BConcat(HashFeed(SubSeq(keys, 1, mid), state),
                     HashFeed(SubSeq(keys, mid + 1, Len(keys)), state))

compute_state_hash(state) == HashFeed(SortedKeys(DOMAIN state), state)

verify_state_integrity(snapshot) ==
    compute_state_hash(snapshot.state) = snapshot.state_hash

\* create_snapshot hashing the keys only
create_snapshot_hash_of_keys(self, contract_addr, version, t) ==
    IF contract_addr \notin DOMAIN self.states
    THEN [self |-> self, res |-> "StateError"]
    ELSE LET state == self.states[contract_addr]
             snapshot == [contract_addr |-> contract_addr,
                          version |-> version,
                          timestamp |-> t,
                          state |-> state,
                          state_hash |-> compute_state_hash([k \in DOMAIN state |-> << >>]),
                          schema_version |-> SCHEMA_VERSION]
         IN  [self |-> [self EXCEPT !.snapshots = PushAt(@, contract_addr, snapshot)],
              res |-> "Ok"]

\* create_snapshot returning Ok for a present state without storing the snapshot
create_snapshot_not_stored(self, contract_addr, version, t) ==
    IF contract_addr \notin DOMAIN self.states
    THEN [self |-> self, res |-> "StateError"]
    ELSE [self |-> self, res |-> "Ok"]

create_snapshot(self, contract_addr, version, t) ==
    IF contract_addr \notin DOMAIN self.states
    THEN [self |-> self, res |-> "StateError"]
    ELSE LET state == self.states[contract_addr]
             snapshot == [contract_addr |-> contract_addr,
                          version |-> version,
                          timestamp |-> t,
                          state |-> state,
                          state_hash |-> compute_state_hash(state),
                          schema_version |-> SCHEMA_VERSION]
         IN  [self |-> [self EXCEPT !.snapshots = PushAt(@, contract_addr, snapshot)],
              res |-> "Ok"]

\* snapshots.iter().find(|s| s.timestamp == timestamp): index of the first match, 0 if none
FindSnapshot(snaps, timestamp) ==
    LET hits == {i \in 1..Len(snaps) : snaps[i].timestamp = timestamp}
    IN  IF hits = {} THEN 0 ELSE CHOOSE i \in hits : \A j \in hits : i <= j

\* restore_from_snapshot dropping the snapshots taken after the restored one
restore_from_snapshot_truncating(self, contract_addr, timestamp) ==
    IF contract_addr \notin DOMAIN self.snapshots
    THEN [self |-> self, res |-> "StateError"]
    ELSE LET snaps == self.snapshots[contract_addr]
             i == FindSnapshot(snaps, timestamp)
         IN  IF i = 0 THEN [self |-> self, res |-> "StateError"]
             ELSE IF ~verify_state_integrity(snaps[i])
             THEN [self |-> self, res |-> "StateError"]
             ELSE [self |-> [self EXCEPT !.states = Put(@, contract_addr, snaps[i].state),
                                         !.snapshots[contract_addr] = SubSeq(snaps, 1, i)],
                   res |-> "Ok"]

restore_from_snapshot(self, contract_addr, timestamp) ==
    IF contract_addr \notin DOMAIN self.snapshots
    THEN [self |-> self, res |-> "StateError"]
    ELSE LET snaps == self.snapshots[contract_addr]
             i == FindSnapshot(snaps, timestamp)
         IN  IF i = 0 THEN [self |-> self, res |-> "StateError"]
             ELSE IF ~verify_state_integrity(snaps[i])
             THEN [self |-> self, res |-> "StateError"]
             ELSE [self |-> [self EXCEPT !.states = Put(@, contract_addr, snaps[i].state)],
                   res |-> "Ok"]

\* the StateDiff that lists every key of both maps as modified, changed or not
StateDiffOf_all_common(old_state, new_state) ==
    [added    |-> [k \in (DOMAIN new_state) \ (DOMAIN old_state) |-> new_state[k]],
     modified |-> [k \in (DOMAIN new_state) \cap (DOMAIN old_state)
                        |-> <<old_state[k], new_state[k]>>],
     deleted  |-> [k \in (DOMAIN old_state) \ (DOMAIN new_state) |-> old_state[k]]]

\* the StateDiff between two maps
StateDiffOf(old_state, new_state) ==
    [added    |-> [k \in (DOMAIN new_state) \ (DOMAIN old_state) |-> new_state[k]],
     modified |-> [k \in {x \in (DOMAIN new_state) \cap (DOMAIN old_state) :
                              old_state[x] # new_state[x]}
                        |-> <<old_state[k], new_state[k]>>],
     deleted  |-> [k \in (DOMAIN old_state) \ (DOMAIN new_state) |-> old_state[k]]]

track_state_changes(self, contract_addr, old_state, new_state) ==
    [self EXCEPT !.diffs = PushAt(@, contract_addr, StateDiffOf(old_state, new_state))]

get_state(self, contract_addr) ==
    IF contract_addr \in DOMAIN self.states THEN <<self.states[contract_addr]>> ELSE << >>

get_snapshots(self, contract_addr) ==
    IF contract_addr \in DOMAIN self.snapshots THEN <<self.snapshots[contract_addr]>>
    ELSE << >>

\* update_state replacing the whole states map by the one updated state
update_state_dropping_others(self, contract_addr, key, value) ==
    LET old_state == IF contract_addr \in DOMAIN self.states
                     THEN self.states[contract_addr] ELSE EmptyMap
        v == validate_state_update(old_state, key, value)
        new_state == Put(old_state, key, value)
    IN  IF v # "Ok" THEN [self |-> self, res |-> v]
        ELSE [self |-> [track_state_changes(self, contract_addr, old_state, new_state)
                            EXCEPT !.states = Put(EmptyMap, contract_addr, new_state)],
              res |-> "Ok"]

\* update_state building the new state from the written entry alone
update_state_from_empty(self, contract_addr, key, value) ==
    LET old_state == IF contract_addr \in DOMAIN self.states
                     THEN self.states[contract_addr] ELSE EmptyMap
        v == validate_state_update(old_state, key, value)
        new_state == Put(EmptyMap, key, value)
    IN  IF v # "Ok" THEN [self |-> self, res |-> v]
        ELSE [self |-> [track_state_changes(self, contract_addr, old_state, new_state)
                            EXCEPT !.states = Put(@, contract_addr, new_state)],
              res |-> "Ok"]

update_state(self, contract_addr, key, value) ==
    LET old_state == IF contract_addr \in DOMAIN self.states
                     THEN self.states[contract_addr] ELSE EmptyMap
        v == validate_state_update(old_state, key, value)
        new_state == Put(old_state, key, value)
    IN  IF v # "Ok" THEN [self |-> self, res |-> v]
        ELSE [self |-> [track_state_changes(self, contract_addr, old_state, new_state)
                            EXCEPT !.states = Put(@, contract_addr, new_state)],
              res |-> "Ok"]

---------------------------------------------------------------------------
(* contract/registry.rs: ContractRegistry *)

(* A version string is the sequence of its dot-separated numeric            *)
(* components: "1.0.0" is <<1, 0, 0>>, "1.0" is <<1, 0>>.  A string with a  *)
(* pre-release or build part has two components more, the identifiers after *)
(* "-" and after "+", each identifier the sequence of its ASCII codes:      *)
(* "1.0.0+1" is <<1, 0, 0, << >>, << <<49>> >> >>, "1.0.0-alpha" is         *)
(* <<1, 0, 0, << <<97, 108, 112, 104, 97>> >>, << >> >>.  A string without  *)
(* either part is written as the triple.                                    *)

IsDigit(c) == c \in 48..57
\* [0-9A-Za-z-]
IsIdentChar(c) == IsDigit(c) \/ c \in 65..90 \/ c \in 97..122 \/ c = 45
AllDigits(id) == \A i \in 1..Len(id) : IsDigit(id[i])

\* Prerelease: identifiers not empty, of [0-9A-Za-z-], a numeric one without
\* leading zero
PrereleaseOk(pre) ==
    \A i \in 1..Len(pre) :
        /\ pre[i] # << >>
        /\ \A j \in 1..Len(pre[i]) : IsIdentChar(pre[i][j])
        /\ (AllDigits(pre[i]) /\ Len(pre[i]) > 1 => pre[i][1] # 48)

\* BuildMetadata: identifiers not empty, of [0-9A-Za-z-]
BuildMetadataOk(build) ==
    \A i \in 1..Len(build) :
        /\ build[i] # << >>
        /\ \A j \in 1..Len(build[i]) : IsIdentChar(build[i][j])

\* semver::Version::parse: MAJOR.MINOR.PATCH, with or without a pre-release and
\* build metadata
semver_parse(s) ==
    IF Len(s) = 3
    THEN [ok |-> TRUE, major |-> s[1], minor |-> s[2], patch |-> s[3],
          pre |-> << >>, build |-> << >>]
    ELSE IF Len(s) = 5 /\ PrereleaseOk(s[4]) /\ BuildMetadataOk(s[5])
    THEN [ok |-> TRUE, major |-> s[1], minor |-> s[2], patch |-> s[3],
          pre |-> s[4], build |-> s[5]]
    ELSE [ok |-> FALSE, major |-> 0, minor |-> 0, patch |-> 0,
          pre |-> << >>, build |-> << >>]

\* Ordering as -1 (Less), 0 (Equal), 1 (Greater)
IntCmp(a, b) == IF a < b THEN -1 ELSE IF a > b THEN 1 ELSE 0
\* Ordering::then
ThenCmp(c, d) == IF c # 0 THEN c ELSE d

\* Ord of str: byte by byte, the shorter first when one is a prefix
RECURSIVE StrCmp(_, _)
StrCmp(a, b) ==
    IF a = << >> THEN (IF b = << >> THEN 0 ELSE -1)
    ELSE IF b = << >> THEN 1
    ELSE ThenCmp(IntCmp(a[1], b[1]), StrCmp(Tail(a), Tail(b)))

\* two pre-release identifiers: numeric ones by value (length, then digits),
\* a numeric one below an alphanumeric one, alphanumeric ones as strings
PreIdentCmp(l, r) ==
    IF AllDigits(l) /\ AllDigits(r) THEN ThenCmp(IntCmp(Len(l), Len(r)), StrCmp(l, r))
    ELSE IF AllDigits(l) THEN -1
    ELSE IF AllDigits(r) THEN 1
    ELSE StrCmp(l, r)

\* identifier by identifier; the longer list is greater when the shorter is
\* its prefix
RECURSIVE PreFieldsCmp(_, _)
PreFieldsCmp(a, b) ==
    IF a = << >> THEN (IF b = << >> THEN 0 ELSE -1)
    ELSE IF b = << >> THEN 1
    ELSE ThenCmp(PreIdentCmp(a[1], b[1]), PreFieldsCmp(Tail(a), Tail(b)))

\* Ord of Prerelease: a version without pre-release is greater than one with
Prerelease_cmp(a, b) ==
    IF a = << >> THEN (IF b = << >> THEN 0 ELSE 1)
    ELSE IF b = << >> THEN -1
    ELSE PreFieldsCmp(a, b)

\* trim_start_matches('0')
RECURSIVE TrimZeros(_)
TrimZeros(id) ==
    IF id # << >> /\ id[1] = 48 THEN TrimZeros(Tail(id)) ELSE id

\* two build identifiers: numeric ones by value, then by the count of leading
\* zeros; a numeric one below an alphanumeric one
BuildIdentCmp(l, r) ==
    IF AllDigits(l) /\ AllDigits(r)
    THEN ThenCmp(IntCmp(Len(TrimZeros(l)), Len(TrimZeros(r))),
                 ThenCmp(StrCmp(TrimZeros(l), TrimZeros(r)), IntCmp(Len(l), Len(r))))
    ELSE IF AllDigits(l) THEN -1
    ELSE IF AllDigits(r) THEN 1
    ELSE StrCmp(l, r)

RECURSIVE BuildFieldsCmp(_, _)
BuildFieldsCmp(a, b) ==
    IF a = << >> THEN (IF b = << >> THEN 0 ELSE -1)
    ELSE IF b = << >> THEN 1
    ELSE ThenCmp(BuildIdentCmp(a[1], b[1]), BuildFieldsCmp(Tail(a), Tail(b)))

\* Ord of BuildMetadata: the empty metadata is the one empty identifier, below
\* every other
BuildMetadata_cmp(a, b) ==
    BuildFieldsCmp(IF a = << >> THEN << << >> >> ELSE a,
                   IF b = << >> THEN << << >> >> ELSE b)

\* Version::cmp_precedence: SemVer 2.0.0 precedence, which ignores the build
\* metadata
cmp_precedence(a, b) ==
    ThenCmp(IntCmp(a.major, b.major),
            ThenCmp(IntCmp(a.minor, b.minor),
                    ThenCmp(IntCmp(a.patch, b.patch), Prerelease_cmp(a.pre, b.pre))))

\* Ord of Version: the fields in their order, the build metadata last
Version_cmp(a, b) ==
    ThenCmp(cmp_precedence(a, b), BuildMetadata_cmp(a.build, b.build))

\* a < b as semver::Version orders
semver_lt(a, b) == Version_cmp(a, b) < 0

\* a <= b as semver::Version orders
semver_le(a, b) == Version_cmp(a, b) <= 0

ContractRegistry_new ==
    [versions |-> EmptyMap,
     version_index |-> EmptyMap,
     author_index |-> EmptyMap,
     creation_time_index |-> EmptyMap,
     update_time_index |-> EmptyMap,
     upgrade_history |-> EmptyMap]

ContractRegistry_verify_bytecode(bytecode) ==
    IF bytecode = << >> THEN "BytecodeVerificationError" ELSE "Ok"

\* check_version_compatibility without the is_upgradeable check
check_version_compatibility_upgradeable(self, address, new_version) ==
    IF address \in DOMAIN self.versions /\ self.versions[address] # << >>
    THEN LET latest == self.versions[address][Len(self.versions[address])]
             current_version == semver_parse(latest.metadata.version)
             new_ver == semver_parse(new_version.metadata.version)
         IN  IF ~current_version.ok THEN "VersionIncompatible"
             ELSE IF ~new_ver.ok THEN "VersionIncompatible"
             ELSE IF semver_le(new_ver, current_version) THEN "VersionConflict"
             ELSE "Ok"
    ELSE "Ok"

check_version_compatibility(self, address, new_version) ==
    IF address \in DOMAIN self.versions /\ self.versions[address] # << >>
    THEN LET latest == self.versions[address][Len(self.versions[address])]
             current_version == semver_parse(latest.metadata.version)
             new_ver == semver_parse(new_version.metadata.version)
         IN  IF ~current_version.ok THEN "VersionIncompatible"
             ELSE IF ~new_ver.ok THEN "VersionIncompatible"
             ELSE IF semver_le(new_ver, current_version) THEN "VersionConflict"
             ELSE IF ~latest.metadata.is_upgradeable THEN "UpgradeValidationError"
             ELSE "Ok"
    ELSE "Ok"

\* registry.rs validate_contract_state: a stub that accepts every version
ContractRegistry_validate_contract_state(self, address, new_version) == "Ok"

register_version(self, address, version) ==
    LET b == ContractRegistry_verify_bytecode(version.bytecode)
        c == check_version_compatibility(self, address, version)
        s == IF address \in DOMAIN self.versions
             THEN ContractRegistry_validate_contract_state(self, address, version)
             ELSE "Ok"
        previous_version ==
            IF address \in DOMAIN self.versions /\ self.versions[address] # << >>
            THEN <<self.versions[address][Len(self.versions[address])]>>
            ELSE << >>
    IN  IF b # "Ok" THEN [self |-> self, res |-> b]
        ELSE IF c # "Ok" THEN [self |-> self, res |-> c]
        ELSE IF s # "Ok" THEN [self |-> self, res |-> s]
        ELSE [self |->
                [versions |-> PushAt(self.versions, address, version),
                 version_index |->
                    PushAt(self.version_index, version.metadata.version, address),
                 author_index |->
                    PushAt(self.author_index, version.metadata.author, address),
                 creation_time_index |->
                    PushAt(self.creation_time_index, version.metadata.created_at, address),
                 update_time_index |->
                    PushAt(self.update_time_index, version.metadata.updated_at, address),
                 upgrade_history |->
                    IF previous_version # << >>
                    THEN PushAt(self.upgrade_history, address,
                                [from_version |-> previous_version[1].metadata.version,
                                 to_version |-> version.metadata.version,
                                 timestamp |-> version.metadata.updated_at,
                                 successful |-> TRUE,
                                 rollback_performed |-> FALSE])
                    ELSE self.upgrade_history],
              res |-> "Ok"]

rollback_version(self, address) ==
    IF address \notin DOMAIN self.versions THEN [self |-> self, res |-> "NotFound"]
    ELSE IF Len(self.versions[address]) < 2
    THEN [self |-> self, res |-> "StateRollbackFailed"]
    ELSE LET vs == self.versions[address]
             h == self.upgrade_history
             marked == IF address \in DOMAIN h /\ h[address] # << >>
                       THEN [h EXCEPT ![address][Len(h[address])] =
                                [h[address][Len(h[address])] EXCEPT
                                    !.rollback_performed = TRUE,
                                    !.successful = FALSE]]
                       ELSE h
         IN  [self |-> [self EXCEPT
                            !.versions[address] = SubSeq(vs, 1, Len(vs) - 1),
                            !.upgrade_history = marked],
              res |-> "Ok"]

\* Ok(&Vec) is <<versions>>, Err(NotFound) is << >>
get_contract_versions(self, address) ==
    IF address \in DOMAIN self.versions THEN <<self.versions[address]>> ELSE << >>

\* [res, version]: the first version of address whose version string equals `version`
get_contract_version(self, address, version) ==
    IF address \notin DOMAIN self.versions THEN [res |-> "NotFound", v |-> << >>]
    ELSE LET vs == self.versions[address]
             hits == {i \in 1..Len(vs) : vs[i].metadata.version = version}
         IN  IF hits = {} THEN [res |-> "VersionNotFound", v |-> << >>]
             ELSE [res |-> "Ok", v |-> <<vs[CHOOSE i \in hits : \A j \in hits : i <= j]>>]

get_latest_version(self, address) ==
    IF address \notin DOMAIN self.versions THEN [res |-> "NotFound", v |-> << >>]
    ELSE IF self.versions[address] = << >> THEN [res |-> "NotFound", v |-> << >>]
    ELSE [res |-> "Ok", v |-> <<self.versions[address][Len(self.versions[address])]>>]

---------------------------------------------------------------------------
(* contract/mod.rs: ContractRuntime *)

ContractRuntime_new ==
    [access_control |-> AccessControl_new,
     registry |-> ContractRegistry_new,
     state_manager |-> StateManager_new,
     operation_tracker |-> OperationTracker_new]

\* has_role answering yes for every account
ContractRuntime_has_role_anyone(rt, role, account) == TRUE

ContractRuntime_has_role(rt, role, account) ==
    AccessControl_has_role(rt.access_control, role, account)

ContractRuntime_grant_role(rt, role, account, snd) ==
    LET g == AccessControl_grant_role(rt.access_control, role, account, snd)
    IN  [rt |-> [rt EXCEPT !.access_control = g.self], res |-> g.res, val |-> g.val]

contract_exists(rt, contract_addr) ==
    get_contract_versions(rt.registry, contract_addr) # << >>

ContractRuntime_verify_bytecode(bytecode) ==
    IF bytecode = << >> THEN "BytecodeVerificationError"
    ELSE IF BLen(bytecode) > MAX_UPGRADE_SIZE THEN "BytecodeVerificationError"
    ELSE "Ok"

ContractRuntime_validate_contract_state(rt, contract_addr) ==
    IF ~contract_exists(rt, contract_addr) THEN "StateValidationError"
    ELSE IF get_state(rt.state_manager, contract_addr) = << >> THEN "StateValidationError"
    ELSE "Ok"

(* current_time - x on u64.  When x > current_time the subtraction         *)
(* overflows: a build with overflow checks panics, a build without wraps    *)
(* to current_time - x + 2^64, which is above every limit it is compared    *)
(* with (the model's times are far below 2^64 - 86400).                     *)
U64SubOverflows(current_time, x) == x > current_time

U64SubLess(current_time, x, limit) ==
    IF U64SubOverflows(current_time, x) THEN FALSE ELSE current_time - x < limit

check_upgrade_limits(rt, contract_addr, t, overflow_checks) ==
    LET got == get_contract_versions(rt.registry, contract_addr)
    IN  IF got = << >> THEN "NotFound"
        ELSE LET versions == got[1]
                 latest == versions[Len(versions)]
                 Today(v) == U64SubLess(t, v.metadata.created_at, SECONDS_PER_DAY)
                 Overflowing(v) == U64SubOverflows(t, v.metadata.created_at)
             IN  IF versions = << >> THEN "Ok"
                 ELSE IF overflow_checks /\ U64SubOverflows(t, latest.metadata.updated_at)
                 THEN "Panic"
                 ELSE IF U64SubLess(t, latest.metadata.updated_at, MIN_UPGRADE_INTERVAL)
                 THEN "UpgradeLimitExceeded"
                 ELSE IF overflow_checks /\ Len(SelectSeq(versions, Overflowing)) > 0
                 THEN "Panic"
                 ELSE IF Len(SelectSeq(versions, Today)) >= MAX_UPGRADES_PER_DAY
                 THEN "UpgradeLimitExceeded"
                 ELSE "Ok"

\* the call left the tracker as tr and returned res
Leave(rt, tr, res) ==
    [rt |-> [rt EXCEPT !.operation_tracker = tr], res |-> res, val |-> << >>]

\* end_operation, then return res
EndAndReturn(rt, tr, contract_addr, op_type, res) ==
    Leave(rt, end_operation(tr, contract_addr, op_type), res)

\* deploy_contract storing the initial_state it builds (the one bootstrap
\* entry) as the state of the address
deploy_contract_initial_state(rt, bytecode, contract_addr, abi, metadata, snd, t) ==
    LET st == start_operation(rt.operation_tracker, contract_addr, "Deploy", t)
        version == [bytecode |-> bytecode, metadata |-> metadata, abi |-> abi]
        initial_state == Put(EmptyMap, B_initialized, <<<<1, 1>>>>)
        u == update_state(rt.state_manager, contract_addr, B_initialized, <<<<1, 1>>>>)
        w == [u.self EXCEPT !.states = Put(@, contract_addr, initial_state)]
        c == create_snapshot(w, contract_addr, metadata.version, t)
        r == register_version(rt.registry, contract_addr, version)
    IN  IF st.res # "Ok" THEN Leave(rt, st.self, st.res)
        ELSE IF ~snd.ok THEN Leave(rt, st.self, "ExecutionError")
        ELSE IF ~ContractRuntime_has_role(rt, DEPLOYER_ROLE, snd.addr)
        THEN EndAndReturn(rt, st.self, contract_addr, "Deploy", "AccessDenied")
        ELSE IF ContractRuntime_verify_bytecode(bytecode) # "Ok"
        THEN EndAndReturn(rt, st.self, contract_addr, "Deploy",
                          ContractRuntime_verify_bytecode(bytecode))
        ELSE IF u.res # "Ok"
        THEN EndAndReturn(rt, st.self, contract_addr, "Deploy", u.res)
        ELSE IF c.res # "Ok"
        THEN EndAndReturn([rt EXCEPT !.state_manager = w], st.self,
                          contract_addr, "Deploy", c.res)
        ELSE EndAndReturn([rt EXCEPT !.state_manager = c.self, !.registry = r.self],
                          st.self, contract_addr, "Deploy", r.res)

\* deploy_contract checking the caller's role before it asks for admission
deploy_contract_authorizing_first(rt, bytecode, contract_addr, abi, metadata, snd, t) ==
    LET st == start_operation(rt.operation_tracker, contract_addr, "Deploy", t)
        version == [bytecode |-> bytecode, metadata |-> metadata, abi |-> abi]
        u == update_state(rt.state_manager, contract_addr, B_initialized, <<<<1, 1>>>>)
        c == create_snapshot(u.self, contract_addr, metadata.version, t)
        r == register_version(rt.registry, contract_addr, version)
    IN  IF ~snd.ok THEN Leave(rt, rt.operation_tracker, "ExecutionError")
        ELSE IF ~ContractRuntime_has_role(rt, DEPLOYER_ROLE, snd.addr)
        THEN Leave(rt, rt.operation_tracker, "AccessDenied")
        ELSE IF st.res # "Ok" THEN Leave(rt, st.self, st.res)
        ELSE IF ContractRuntime_verify_bytecode(bytecode) # "Ok"
        THEN EndAndReturn(rt, st.self, contract_addr, "Deploy",
                          ContractRuntime_verify_bytecode(bytecode))
        ELSE IF u.res # "Ok"
        THEN EndAndReturn(rt, st.self, contract_addr, "Deploy", u.res)
        ELSE IF c.res # "Ok"
        THEN EndAndReturn([rt EXCEPT !.state_manager = u.self], st.self,
                          contract_addr, "Deploy", c.res)
        ELSE EndAndReturn([rt EXCEPT !.state_manager = c.self, !.registry = r.self],
                          st.self, contract_addr, "Deploy", r.res)

deploy_contract(rt, bytecode, contract_addr, abi, metadata, snd, t) ==
    LET st == start_operation(rt.operation_tracker, contract_addr, "Deploy", t)
        version == [bytecode |-> bytecode, metadata |-> metadata, abi |-> abi]
        u == update_state(rt.state_manager, contract_addr, B_initialized, <<<<1, 1>>>>)
        c == create_snapshot(u.self, contract_addr, metadata.version, t)
        r == register_version(rt.registry, contract_addr, version)
    IN  IF st.res # "Ok" THEN Leave(rt, st.self, st.res)
        ELSE IF ~snd.ok THEN Leave(rt, st.self, "ExecutionError")
        ELSE IF ~ContractRuntime_has_role(rt, DEPLOYER_ROLE, snd.addr)
        THEN EndAndReturn(rt, st.self, contract_addr, "Deploy", "AccessDenied")
        ELSE IF ContractRuntime_verify_bytecode(bytecode) # "Ok"
        THEN EndAndReturn(rt, st.self, contract_addr, "Deploy",
                          ContractRuntime_verify_bytecode(bytecode))
        ELSE IF u.res # "Ok"
        THEN EndAndReturn(rt, st.self, contract_addr, "Deploy", u.res)
        ELSE IF c.res # "Ok"
        THEN EndAndReturn([rt EXCEPT !.state_manager = u.self], st.self,
                          contract_addr, "Deploy", c.res)
        ELSE EndAndReturn([rt EXCEPT !.state_manager = c.self, !.registry = r.self],
                          st.self, contract_addr, "Deploy", r.res)

upgrade_contract(rt, contract_addr, bytecode, abi, metadata, snd, t, overflow_checks) ==
    LET st == start_operation(rt.operation_tracker, contract_addr, "Upgrade", t)
        v == ContractRuntime_validate_contract_state(rt, contract_addr)
        l == check_upgrade_limits(rt, contract_addr, t, overflow_checks)
        b == ContractRuntime_verify_bytecode(bytecode)
        current_version == get_latest_version(rt.registry, contract_addr)
        c == create_snapshot(rt.state_manager, contract_addr,
                             current_version.v[1].metadata.version, t)
        version == [bytecode |-> bytecode, metadata |-> metadata, abi |-> abi]
        r == register_version(rt.registry, contract_addr, version)
    IN  IF st.res # "Ok" THEN Leave(rt, st.self, st.res)
        ELSE IF ~snd.ok THEN Leave(rt, st.self, "ExecutionError")
        ELSE IF ~ContractRuntime_has_role(rt, UPGRADER_ROLE, snd.addr)
        THEN EndAndReturn(rt, st.self, contract_addr, "Upgrade", "UpgradeAuthorizationError")
        ELSE IF v # "Ok" THEN EndAndReturn(rt, st.self, contract_addr, "Upgrade", v)
        ELSE IF l = "Panic" THEN Leave(rt, st.self, "Panic")
        ELSE IF l # "Ok" THEN EndAndReturn(rt, st.self, contract_addr, "Upgrade", l)
        ELSE IF b # "Ok" THEN EndAndReturn(rt, st.self, contract_addr, "Upgrade", b)
        ELSE IF current_version.res # "Ok"
        THEN EndAndReturn(rt, st.self, contract_addr, "Upgrade", current_version.res)
        ELSE IF c.res # "Ok"
        THEN EndAndReturn(rt, st.self, contract_addr, "Upgrade", c.res)
        ELSE EndAndReturn([rt EXCEPT !.state_manager = c.self, !.registry = r.self],
                          st.self, contract_addr, "Upgrade", r.res)

(* u64 values are four 16-bit limbs, least significant first, so that the   *)
(* whole range of a 64-bit gas limit can be written down.                   *)
Limb == 2^16

\* the u64 with value n, for 0 <= n < 2^31
U64(n) == <<n % Limb, (n \div Limb) % Limb, 0, 0>>

U64_MAX == <<Limb - 1, Limb - 1, Limb - 1, Limb - 1>>

I32_MAX == (2^30 - 1) * 2 + 1

\* `n as u64` for an i32 n: sign extension
I32AsU64(n) ==
    IF n >= 0 THEN U64(n)
    ELSE <<n % Limb, (n \div Limb) % Limb, Limb - 1, Limb - 1>>

\* x * k on u64 for a small k: [val, overflow], val being the wrapped product
U64Mul(x, k) ==
    LET p1 == x[1] * k
        p2 == x[2] * k + (p1 \div Limb)
        p3 == x[3] * k + (p2 \div Limb)
        p4 == x[4] * k + (p3 \div Limb)
    IN  [val |-> <<p1 % Limb, p2 % Limb, p3 % Limb, p4 % Limb>>,
         overflow |-> p4 \div Limb > 0]

\* x > y on u64
U64Greater(x, y) ==
    \E i \in 1..4 : x[i] > y[i] /\ \A j \in (i + 1)..4 : x[j] = y[j]

\* a + b on i32 overflows
I32AddOverflows(a, b) ==
    \/ b > 0 /\ a > I32_MAX - b
    \/ b < 0 /\ a < (-I32_MAX - 1) - b

\* a + b on i32, wrapped
I32WrappingAdd(a, b) ==
    IF b > 0 /\ a > I32_MAX - b THEN (a - I32_MAX - 1) + (b - I32_MAX - 1)
    ELSE IF b < 0 /\ a < (-I32_MAX - 1) - b THEN (a + I32_MAX + 1) + (b + I32_MAX + 1)
    ELSE a + b

\* loop_test rejecting already when iterations * 100 reaches the gas limit
Dispatch_at_limit(method, args, gas_limit, overflow_checks) ==
    IF method = "loop_test" /\ Len(args) = 1
    THEN IF U64Mul(I32AsU64(args[1]), 100).val = gas_limit
            \/ U64Greater(U64Mul(I32AsU64(args[1]), 100).val, gas_limit)
         THEN [res |-> "ExecutionError", val |-> << >>]
         ELSE [res |-> "Ok", val |-> << >>]
    ELSE [res |-> "NotImplemented", val |-> << >>]

(* the built-in dispatch of execute_contract: [res, val].  The arguments    *)
(* are the i32 of Value::I32; an arithmetic overflow panics in a build with *)
(* overflow checks and wraps in a build without.                            *)
Dispatch(method, args, gas_limit, overflow_checks) ==
    IF method = "add"
    THEN IF Len(args) # 2 THEN [res |-> "InvalidArguments", val |-> << >>]
         ELSE IF overflow_checks /\ I32AddOverflows(args[1], args[2])
         THEN [res |-> "Panic", val |-> << >>]
         ELSE [res |-> "Ok", val |-> <<I32WrappingAdd(args[1], args[2])>>]
    ELSE IF method = "loop_test"
    THEN IF Len(args) # 1 THEN [res |-> "InvalidArguments", val |-> << >>]
         ELSE LET iterations == I32AsU64(args[1])
                  required == U64Mul(iterations, 100)
              IN  IF overflow_checks /\ required.overflow
                  THEN [res |-> "Panic", val |-> << >>]
                  ELSE IF U64Greater(required.val, gas_limit)
                  THEN [res |-> "ExecutionError", val |-> << >>]
                  ELSE [res |-> "Ok", val |-> << >>]
    ELSE [res |-> "NotImplemented", val |-> << >>]

\* version is << >> (None) or <<v>> (Some(v))
\* execute_contract looking the method up before it takes the snapshot
execute_contract_lookup_first(rt, contract_addr, method, args, gas_limit, version, snd, t, overflow_checks) ==
    LET st == start_operation(rt.operation_tracker, contract_addr, "Execute", t)
        v == ContractRuntime_validate_contract_state(rt, contract_addr)
        contract_version ==
            IF version # << >>
            THEN get_contract_version(rt.registry, contract_addr, version[1])
            ELSE get_latest_version(rt.registry, contract_addr)
        c == create_snapshot(rt.state_manager, contract_addr,
                             contract_version.v[1].metadata.version, t)
        after == [rt EXCEPT !.state_manager = c.self]
        d == Dispatch(method, args, gas_limit, overflow_checks)
    IN  IF st.res # "Ok" THEN Leave(rt, st.self, st.res)
        ELSE IF ~snd.ok THEN Leave(rt, st.self, "ExecutionError")
        ELSE IF ~ContractRuntime_has_role(rt, EXECUTOR_ROLE, snd.addr)
        THEN EndAndReturn(rt, st.self, contract_addr, "Execute", "AccessDenied")
        ELSE IF v # "Ok" THEN EndAndReturn(rt, st.self, contract_addr, "Execute", v)
        ELSE IF contract_version.res # "Ok"
        THEN EndAndReturn(rt, st.self, contract_addr, "Execute", contract_version.res)
        ELSE IF c.res # "Ok"
        THEN EndAndReturn(rt, st.self, contract_addr, "Execute", c.res)
        ELSE IF \A i \in 1..Len(contract_version.v[1].abi.methods) :
                    contract_version.v[1].abi.methods[i] # method
        THEN EndAndReturn(rt, st.self, contract_addr, "Execute", "NotFound")
        ELSE IF d.res = "Panic" THEN Leave(after, st.self, "Panic")
        ELSE [EndAndReturn(after, st.self, contract_addr, "Execute", d.res)
                EXCEPT !.val = d.val]

execute_contract(rt, contract_addr, method, args, gas_limit, version, snd, t, overflow_checks) ==
    LET st == start_operation(rt.operation_tracker, contract_addr, "Execute", t)
        v == ContractRuntime_validate_contract_state(rt, contract_addr)
        contract_version ==
            IF version # << >>
            THEN get_contract_version(rt.registry, contract_addr, version[1])
            ELSE get_latest_version(rt.registry, contract_addr)
        c == create_snapshot(rt.state_manager, contract_addr,
                             contract_version.v[1].metadata.version, t)
        after == [rt EXCEPT !.state_manager = c.self]
        d == Dispatch(method, args, gas_limit, overflow_checks)
    IN  IF st.res # "Ok" THEN Leave(rt, st.self, st.res)
        ELSE IF ~snd.ok THEN Leave(rt, st.self, "ExecutionError")
        ELSE IF ~ContractRuntime_has_role(rt, EXECUTOR_ROLE, snd.addr)
        THEN EndAndReturn(rt, st.self, contract_addr, "Execute", "AccessDenied")
        ELSE IF v # "Ok" THEN EndAndReturn(rt, st.self, contract_addr, "Execute", v)
        ELSE IF contract_version.res # "Ok"
        THEN EndAndReturn(rt, st.self, contract_addr, "Execute", contract_version.res)
        ELSE IF c.res # "Ok"
        THEN EndAndReturn(rt, st.self, contract_addr, "Execute", c.res)
        ELSE IF \A i \in 1..Len(contract_version.v[1].abi.methods) :
                    contract_version.v[1].abi.methods[i] # method
        THEN EndAndReturn(after, st.self, contract_addr, "Execute", "NotFound")
        ELSE IF d.res = "Panic" THEN Leave(after, st.self, "Panic")
        ELSE [EndAndReturn(after, st.self, contract_addr, "Execute", d.res)
                EXCEPT !.val = d.val]

rollback_contract(rt, contract_addr, snd, t) ==
    LET st == start_operation(rt.operation_tracker, contract_addr, "Rollback", t)
        got == get_snapshots(rt.state_manager, contract_addr)
        snapshots == got[1]
        previous_snapshot == snapshots[Len(snapshots) - 1]
        rs == restore_from_snapshot(rt.state_manager, contract_addr,
                                    previous_snapshot.timestamp)
        rv == rollback_version(rt.registry, contract_addr)
    IN  IF st.res # "Ok" THEN Leave(rt, st.self, st.res)
        ELSE IF ~snd.ok THEN Leave(rt, st.self, "ExecutionError")
        ELSE IF ~ContractRuntime_has_role(rt, UPGRADER_ROLE, snd.addr)
        THEN EndAndReturn(rt, st.self, contract_addr, "Rollback", "UpgradeAuthorizationError")
        ELSE IF got = << >>
        THEN EndAndReturn(rt, st.self, contract_addr, "Rollback", "StateError")
        ELSE IF Len(snapshots) < 2
        THEN EndAndReturn(rt, st.self, contract_addr, "Rollback", "StateError")
        ELSE IF rs.res # "Ok"
        THEN EndAndReturn(rt, st.self, contract_addr, "Rollback", rs.res)
        ELSE EndAndReturn([rt EXCEPT !.state_manager = rs.self, !.registry = rv.self],
                          st.self, contract_addr, "Rollback",
                          IF rv.res = "Ok" THEN "Ok" ELSE "StateRollbackFailed")

update_contract_state(rt, contract_addr, key, value, t) ==
    LET st == start_operation(rt.operation_tracker, contract_addr, "StateUpdate", t)
        v == ContractRuntime_validate_contract_state(rt, contract_addr)
        u == update_state(rt.state_manager, contract_addr, key, value)
    IN  IF st.res # "Ok" THEN Leave(rt, st.self, st.res)
        ELSE IF v # "Ok" THEN EndAndReturn(rt, st.self, contract_addr, "StateUpdate", v)
        ELSE EndAndReturn([rt EXCEPT !.state_manager = u.self], st.self,
                          contract_addr, "StateUpdate", u.res)

get_contract_state(rt, contract_addr) == get_state(rt.state_manager, contract_addr)

get_active_operations(rt) == TotalOperations(rt.operation_tracker)

get_operations_per_second(rt, t) == RecentOps(rt.operation_tracker, t)

---------------------------------------------------------------------------
(* State, and what every specification shares *)

\* the runtime as one ContractRuntime value
RT ==
    [access_control |-> access_control,
     registry |-> registry,
     state_manager |-> state_manager,
     operation_tracker |-> operation_tracker]

SetRuntime(rt) ==
    /\ access_control' = rt.access_control
    /\ registry' = rt.registry
    /\ state_manager' = rt.state_manager
    /\ operation_tracker' = rt.operation_tracker

\* the runtime rt as the initial state
SetRuntime0(rt) ==
    /\ access_control = rt.access_control
    /\ registry = rt.registry
    /\ state_manager = rt.state_manager
    /\ operation_tracker = rt.operation_tracker

NoCall ==
    [op |-> "new", addr |-> 0, role |-> 0, idx |-> 0, res |-> "Ok", val |-> << >>,
     changed |-> FALSE, caller |-> [ok |-> TRUE, addr |-> 0], admitted |-> FALSE,
     t |-> 0, seq |-> 0]

\* no task was spawned and the gate is free
NoTasks == [gate |-> 0, pc |-> << >>, result |-> << >>, read |-> << >>]

\* ret after the call op returned res at the current time
Returned(op, addr, res) ==
    [NoCall EXCEPT !.op = op, !.addr = addr, !.res = res, !.t = now, !.seq = steps + 1,
                   !.caller = sender(TEST_SENDER, cfg_test)]

\* this step is a call of op (the clock steps leave ret alone)
IsCall(op) == ret'.seq = steps' /\ ret'.op = op

---------------------------------------------------------------------------
(* The operation tracker on its own *)

MaxTrackerSteps == 4
NumFullAddrs == 10
PrefillActive == 98
PrefillHistory == 900
PrefillDistinct == 99

\* the operations lo..hi admitted at time t, spread over the addresses
\* 1..NumFullAddrs; the first half is computed in full before the second starts
RECURSIVE StartMany(_, _, _, _)
StartMany(self, lo, hi, t) ==
    IF lo > hi THEN self
    ELSE IF lo = hi
    THEN start_operation(self, ((lo - 1) % NumFullAddrs) + 1, "Deploy", t).self
    ELSE LET half == StartMany(self, lo, (lo + hi) \div 2, t)
         IN  IF half = half THEN StartMany(half, (lo + hi) \div 2 + 1, hi, t) ELSE half

\* the operations lo..hi at time t, each started and ended before the next
RECURSIVE StartEndMany(_, _, _, _)
StartEndMany(self, lo, hi, t) ==
    IF lo > hi THEN self
    ELSE IF lo = hi
    THEN end_operation(start_operation(self, 1, "Execute", t).self, 1, "Execute")
    ELSE LET half == StartEndMany(self, lo, (lo + hi) \div 2, t)
         IN  IF half = half THEN StartEndMany(half, (lo + hi) \div 2 + 1, hi, t)
             ELSE half

\* the operations lo..hi admitted at time t, operation i on the address
\* NumFullAddrs + 1 + i of its own
RECURSIVE StartDistinct(_, _, _, _)
StartDistinct(self, lo, hi, t) ==
    IF lo > hi THEN self
    ELSE IF lo = hi
    THEN start_operation(self, NumFullAddrs + 1 + lo, "Deploy", t).self
    ELSE LET half == StartDistinct(self, lo, (lo + hi) \div 2, t)
         IN  IF half = half THEN StartDistinct(half, (lo + hi) \div 2 + 1, hi, t)
             ELSE half

TrackerAddrs == {1, NumFullAddrs + 1}
TrackerOps == {"Deploy", "Execute"}
TrackerTicks == {1, 30, 61}

InitRest ==
    /\ now = 0
    /\ TEST_SENDER = TestSender_new
    /\ cfg_test \in BOOLEAN
    /\ access_control = AccessControl_new
    /\ registry = ContractRegistry_new
    /\ state_manager = StateManager_new
    /\ ret = NoCall
    /\ steps = 0
    /\ admin_granted = FALSE
    /\ upgraded = EmptyMap
    /\ tasks = NoTasks

InitTracker ==
    /\ InitRest
    /\ operation_tracker \in
          { OperationTracker_new,
            StartMany(OperationTracker_new, 1, PrefillActive, 0),
            StartDistinct(OperationTracker_new, 1, PrefillDistinct, 0),
            StartMany(StartEndMany(OperationTracker_new, 1, PrefillHistory, 0),
                      1, PrefillActive, 0) }

StartOperation(addr, op) ==
    /\ steps < MaxTrackerSteps
    /\ \E r \in {start_operation(operation_tracker, addr, op, now)} :
           /\ operation_tracker' = r.self
           /\ ret' = [Returned("start_operation", addr, r.res) EXCEPT
                        !.admitted = (r.res = "Ok")]
    /\ steps' = steps + 1
    /\ UNCHANGED <<cfg_test, tasks, now, TEST_SENDER, access_control, registry, state_manager,
                   admin_granted, upgraded>>

EndOperation(addr, op) ==
    /\ steps < MaxTrackerSteps
    /\ operation_tracker' = end_operation(operation_tracker, addr, op)
    /\ ret' = [Returned("end_operation", addr, "Ok") EXCEPT !.val = <<op>>]
    /\ steps' = steps + 1
    /\ UNCHANGED <<cfg_test, tasks, now, TEST_SENDER, access_control, registry, state_manager,
                   admin_granted, upgraded>>

TrackerTick(d) ==
    /\ steps < MaxTrackerSteps
    /\ now' = now + d
    /\ steps' = steps + 1
    /\ UNCHANGED <<cfg_test, tasks, TEST_SENDER, access_control, registry, state_manager,
                   operation_tracker, ret, admin_granted, upgraded>>

NextTracker ==
    \/ \E addr \in TrackerAddrs, op \in TrackerOps : StartOperation(addr, op)
    \/ \E addr \in TrackerAddrs, op \in TrackerOps : EndOperation(addr, op)
    \/ \E d \in TrackerTicks : TrackerTick(d)

SpecTracker == InitTracker /\ [][NextTracker]_vars

\* the number of active entries of addr
ActiveOf(self, addr) ==
    IF addr \in DOMAIN self.active_operations THEN Len(self.active_operations[addr]) ELSE 0

(* C1: in every reachable state of the tracker the active entries number at  *)
(* most 100 in all and at most 10 for any one address, and at most 1000       *)
(* history entries were started within the last second.                       *)
C1_AdmissionBound ==
    /\ TotalOperations(operation_tracker) <= MAX_CONCURRENT_OPERATIONS
    /\ \A a \in DOMAIN operation_tracker.active_operations :
            ActiveOf(operation_tracker, a) <= MAX_OPERATIONS_PER_CONTRACT
    /\ RecentOps(operation_tracker, now) <= MAX_OPERATIONS_PER_SECOND

\* all three limits are met at once, and a further start was refused
C1_Witness ==
    /\ TotalOperations(operation_tracker) = MAX_CONCURRENT_OPERATIONS
    /\ ActiveOf(operation_tracker, 1) = MAX_OPERATIONS_PER_CONTRACT
    /\ RecentOps(operation_tracker, now) = MAX_OPERATIONS_PER_SECOND
    /\ ret.op = "start_operation" /\ ret.res = "ConcurrencyLimitExceeded"

\* the active entries of addr, as a sequence
ActiveList(self, addr) ==
    IF addr \in DOMAIN self.active_operations THEN self.active_operations[addr]
    ELSE << >>

\* the tracker as start_operation finds it once it has reaped
Reaped == cleanup_expired_operations(operation_tracker, now)

(* C18: start_operation(addr, op), after reaping, returns                      *)
(* ConcurrencyLimitExceeded exactly when the active entries number 100 or      *)
(* more, or 1000 or more history entries are less than 1 s old, or addr has    *)
(* 10 or more active entries, and Ok otherwise; a rejected call adds nothing   *)
(* to the active set or the history, an admitted call appends one entry to     *)
(* active[addr] and one to the history and nothing else.                       *)
C18_RejectedIffAtLimit ==
    [][IsCall("start_operation") =>
        /\ ret'.res \in {"Ok", "ConcurrencyLimitExceeded"}
        /\ ret'.res = "ConcurrencyLimitExceeded"
             <=> \/ TotalOperations(Reaped) >= MAX_CONCURRENT_OPERATIONS
                 \/ RecentOps(Reaped, now) >= MAX_OPERATIONS_PER_SECOND
                 \/ ActiveOf(Reaped, ret'.addr) >= MAX_OPERATIONS_PER_CONTRACT
        /\ ret'.res = "ConcurrencyLimitExceeded" => operation_tracker' = Reaped
        /\ ret'.res = "Ok" =>
             /\ Len(ActiveList(operation_tracker', ret'.addr))
                   = Len(ActiveList(Reaped, ret'.addr)) + 1
             /\ SubSeq(ActiveList(operation_tracker', ret'.addr), 1,
                       Len(ActiveList(Reaped, ret'.addr)))
                   = ActiveList(Reaped, ret'.addr)
             /\ \A a \in (DOMAIN Reaped.active_operations
                          \cup DOMAIN operation_tracker'.active_operations) \ {ret'.addr} :
                   ActiveList(operation_tracker', a) = ActiveList(Reaped, a)
             /\ Len(operation_tracker'.operation_history)
                   = Len(Reaped.operation_history) + 1
             /\ SubSeq(operation_tracker'.operation_history, 1,
                       Len(Reaped.operation_history))
                   = Reaped.operation_history]_vars

\* 101 starts were made on 101 addresses and none was released: 100 were
\* admitted and are active, one on each address, and the last one was refused
C18_Witness ==
    /\ ret.op = "start_operation" /\ ret.res = "ConcurrencyLimitExceeded"
    /\ ret.addr \notin DOMAIN operation_tracker.active_operations
    /\ Cardinality(DOMAIN operation_tracker.active_operations)
          = MAX_CONCURRENT_OPERATIONS
    /\ \A a \in DOMAIN operation_tracker.active_operations :
          Len(operation_tracker.active_operations[a]) = 1
    /\ Len(operation_tracker.operation_history) = MAX_CONCURRENT_OPERATIONS

---------------------------------------------------------------------------
(* AccessControl on its own, from AccessControl::new() *)

MaxAccessSteps == 5
NumAccounts == 3
\* account 0 is the caller of a build without cfg(test), account 1 the caller of
\* a build with cfg(test) while the slot is empty
Accounts == 0..(NumAccounts - 1)
AccessRoles == {DEFAULT_ADMIN_ROLE, DEPLOYER_ROLE}

InitAccess ==
    /\ InitRest
    /\ operation_tracker = OperationTracker_new

SetSender(addr) ==
    /\ steps < MaxAccessSteps
    /\ TEST_SENDER' = set_sender(TEST_SENDER, addr)
    /\ steps' = steps + 1
    /\ UNCHANGED <<cfg_test, tasks, now, access_control, registry, state_manager, operation_tracker,
                   ret, admin_granted, upgraded>>

ClearSender ==
    /\ steps < MaxAccessSteps
    /\ TEST_SENDER' = clear_sender(TEST_SENDER)
    /\ steps' = steps + 1
    /\ UNCHANGED <<cfg_test, tasks, now, access_control, registry, state_manager, operation_tracker,
                   ret, admin_granted, upgraded>>

GrantRole(role, account) ==
    /\ steps < MaxAccessSteps
    /\ \E r \in {AccessControl_grant_role(access_control, role, account,
                                          sender(TEST_SENDER, cfg_test))} :
           /\ access_control' = r.self
           /\ ret' = [Returned("grant_role", account, r.res) EXCEPT
                        !.role = role, !.changed = r.val]
           /\ admin_granted' = (admin_granted
                                \/ (role = DEFAULT_ADMIN_ROLE /\ r.res = "Ok"))
    /\ steps' = steps + 1
    /\ UNCHANGED <<cfg_test, tasks, now, TEST_SENDER, registry, state_manager, operation_tracker,
                   upgraded>>

RevokeRole(role, account) ==
    /\ steps < MaxAccessSteps
    /\ \E r \in {revoke_role(access_control, role, account, sender(TEST_SENDER, cfg_test))} :
           /\ access_control' = r.self
           /\ ret' = [Returned("revoke_role", account, r.res) EXCEPT
                        !.role = role, !.changed = r.val]
    /\ steps' = steps + 1
    /\ UNCHANGED <<cfg_test, tasks, now, TEST_SENDER, registry, state_manager, operation_tracker,
                   admin_granted, upgraded>>

SetRoleAdmin(role, admin_role) ==
    /\ steps < MaxAccessSteps
    /\ \E r \in {set_role_admin(access_control, role, admin_role, sender(TEST_SENDER, cfg_test))} :
           /\ access_control' = r.self
           /\ ret' = [Returned("set_role_admin", admin_role, r.res) EXCEPT !.role = role]
    /\ steps' = steps + 1
    /\ UNCHANGED <<cfg_test, tasks, now, TEST_SENDER, registry, state_manager, operation_tracker,
                   admin_granted, upgraded>>

NextAccess ==
    \/ \E a \in Accounts : SetSender(a)
    \/ ClearSender
    \/ \E role \in AccessRoles, a \in Accounts : GrantRole(role, a)
    \/ \E role \in AccessRoles, a \in Accounts : RevokeRole(role, a)
    \/ \E role \in AccessRoles, admin_role \in AccessRoles : SetRoleAdmin(role, admin_role)

SpecAccess == InitAccess /\ [][NextAccess]_vars

\* this step is grant_role(DEFAULT_ADMIN_ROLE, _) made by an identified caller
IsAdminGrant ==
    IsCall("grant_role") /\ ret'.role = DEFAULT_ADMIN_ROLE /\ ret'.caller.ok

\* the caller of this step does not hold DEFAULT_ADMIN_ROLE when it calls
CallerIsNoAdmin ==
    ~AccessControl_has_role(access_control, DEFAULT_ADMIN_ROLE, ret'.caller.addr)

(* C9: the first grant_role(DEFAULT_ADMIN, a) succeeds and makes a a holder,  *)
(* whoever calls; once a grant of DEFAULT_ADMIN has succeeded, such a grant   *)
(* by a caller who does not hold DEFAULT_ADMIN returns AccessDenied and       *)
(* leaves the access control as it was.                                       *)
C9_FirstAdminThenAdminOnly ==
    [][IsAdminGrant =>
        /\ (~admin_granted =>
              /\ ret'.res = "Ok" /\ ret'.changed
              /\ AccessControl_has_role(access_control', DEFAULT_ADMIN_ROLE, ret'.addr))
        /\ (admin_granted /\ CallerIsNoAdmin =>
              ret'.res = "AccessDenied" /\ access_control' = access_control)]_vars

\* a grant of DEFAULT_ADMIN was refused to a caller who is not an admin, after an
\* earlier one had succeeded
C9_Witness ==
    /\ ret.op = "grant_role" /\ ret.role = DEFAULT_ADMIN_ROLE
    /\ ret.res = "AccessDenied" /\ ret.caller.ok
    /\ admin_granted
    /\ Holders(access_control, DEFAULT_ADMIN_ROLE) # {}

(* C10, as stated: grant_role(DEFAULT_ADMIN, a) by a caller who does not hold *)
(* DEFAULT_ADMIN succeeds exactly when no account holds DEFAULT_ADMIN in the  *)
(* state it is called in.                                                     *)
C10_PermittedIffNoHolder ==
    [][IsAdminGrant /\ CallerIsNoAdmin =>
        (ret'.res = "Ok" <=> Holders(access_control, DEFAULT_ADMIN_ROLE) = {})]_vars

(* C10, amended: grant_role(DEFAULT_ADMIN, a) by a caller who does not hold   *)
(* DEFAULT_ADMIN succeeds exactly when no grant of DEFAULT_ADMIN has          *)
(* succeeded before; it is denied once the last holder has been revoked.      *)
C10_PermittedIffNeverGranted ==
    [][IsAdminGrant /\ CallerIsNoAdmin =>
        /\ (ret'.res = "Ok" <=> ~admin_granted)
        /\ (ret'.res # "Ok" => ret'.res = "AccessDenied")]_vars

\* a grant of DEFAULT_ADMIN was refused although no account holds the role
C10_Witness ==
    /\ ret.op = "grant_role" /\ ret.role = DEFAULT_ADMIN_ROLE
    /\ ret.res = "AccessDenied" /\ ret.caller.ok
    /\ admin_granted
    /\ Holders(access_control, DEFAULT_ADMIN_ROLE) = {}

\* the caller of this step holds the admin role of the role the call names
CallerIsRoleAdmin ==
    /\ ret'.caller.ok
    /\ check_role(access_control, get_role_admin(access_control, ret'.role),
                  ret'.caller.addr) = "Ok"

(* C11: grant_role(r, a) by a caller who holds the admin role of r, for an    *)
(* account a that already holds r, returns Ok(false) and leaves the grants    *)
(* (and the role admins) as they were, so a still holds r: a repeated grant   *)
(* is never a toggle.                                                         *)
C11_RepeatedGrantIsNoOp ==
    [][IsCall("grant_role") /\ CallerIsRoleAdmin
       /\ AccessControl_has_role(access_control, ret'.role, ret'.addr) =>
        /\ ret'.res = "Ok" /\ ~ret'.changed
        /\ access_control' = access_control
        /\ AccessControl_has_role(access_control', ret'.role, ret'.addr)]_vars

\* a grant to an account that holds the role returned Ok(false)
C11_Witness ==
    /\ ret.op = "grant_role" /\ ret.res = "Ok" /\ ~ret.changed
    /\ ret.caller.ok
    /\ AccessControl_has_role(access_control, ret.role, ret.addr)
    /\ AccessControl_has_role(access_control, get_role_admin(access_control, ret.role),
                              ret.caller.addr)

(* C12: the admin role of DEFAULT_ADMIN is DEFAULT_ADMIN in every reachable   *)
(* state, whatever grant_role, revoke_role and set_role_admin calls were      *)
(* made; set_role_admin(DEFAULT_ADMIN, x) by a holder of DEFAULT_ADMIN        *)
(* returns InvalidOperation and leaves the role-admin map as it was.          *)
C12_DefaultAdminIsItsOwnAdmin ==
    /\ access_control.role_admins[DEFAULT_ADMIN_ROLE] = DEFAULT_ADMIN_ROLE
    /\ [][/\ DEFAULT_ADMIN_ROLE \in DOMAIN access_control'.role_admins
          /\ access_control'.role_admins[DEFAULT_ADMIN_ROLE] = DEFAULT_ADMIN_ROLE
          /\ get_role_admin(access_control', DEFAULT_ADMIN_ROLE) = DEFAULT_ADMIN_ROLE
          /\ (IsCall("set_role_admin") /\ ret'.role = DEFAULT_ADMIN_ROLE
              /\ ret'.caller.ok
              /\ AccessControl_has_role(access_control, DEFAULT_ADMIN_ROLE,
                                        ret'.caller.addr) =>
                 /\ ret'.res = "InvalidOperation"
                 /\ access_control'.role_admins = access_control.role_admins)]_vars

\* a holder of DEFAULT_ADMIN asked for another admin role of DEFAULT_ADMIN and
\* was refused
C12_Witness ==
    /\ ret.op = "set_role_admin" /\ ret.role = DEFAULT_ADMIN_ROLE
    /\ ret.addr = DEPLOYER_ROLE
    /\ ret.caller.ok
    /\ AccessControl_has_role(access_control, DEFAULT_ADMIN_ROLE, ret.caller.addr)
    /\ ret.res = "InvalidOperation"

---------------------------------------------------------------------------
(* StateManager on its own, from StateManager::new() *)

MaxStateSteps == 5
NumStateAddrs == 2
StateAddrs == 1..NumStateAddrs
\* one-byte keys and values
StateKeys == {<<<<1, 1>>>>, <<<<2, 1>>>>}
StateValues == {<<<<7, 1>>>>, <<<<8, 1>>>>}
SnapshotVersion == <<1, 0, 0>>

InitState ==
    /\ InitRest
    /\ operation_tracker = OperationTracker_new

UpdateState(addr, key, value) ==
    /\ steps < MaxStateSteps
    /\ \E r \in {update_state(state_manager, addr, key, value)} :
           /\ state_manager' = r.self
           /\ ret' = [Returned("update_state", addr, r.res) EXCEPT !.val = <<key, value>>]
    /\ steps' = steps + 1
    /\ UNCHANGED <<cfg_test, tasks, now, TEST_SENDER, access_control, registry, operation_tracker,
                   admin_granted, upgraded>>

CreateSnapshot(addr) ==
    /\ steps < MaxStateSteps
    /\ \E r \in {create_snapshot(state_manager, addr, SnapshotVersion, now)} :
           /\ state_manager' = r.self
           /\ ret' = Returned("create_snapshot", addr, r.res)
    /\ steps' = steps + 1
    /\ UNCHANGED <<cfg_test, tasks, now, TEST_SENDER, access_control, registry, operation_tracker,
                   admin_granted, upgraded>>

\* restore_from_snapshot(addr, S0.timestamp), S0 the i-th snapshot taken of addr
RestoreFromSnapshot(addr, i) ==
    /\ steps < MaxStateSteps
    /\ addr \in DOMAIN state_manager.snapshots
    /\ i \in 1..Len(state_manager.snapshots[addr])
    /\ \E r \in {restore_from_snapshot(state_manager, addr,
                                       state_manager.snapshots[addr][i].timestamp)} :
           /\ state_manager' = r.self
           /\ ret' = [Returned("restore_from_snapshot", addr, r.res) EXCEPT !.idx = i]
    /\ steps' = steps + 1
    /\ UNCHANGED <<cfg_test, tasks, now, TEST_SENDER, access_control, registry, operation_tracker,
                   admin_granted, upgraded>>

StateTick ==
    /\ steps < MaxStateSteps
    /\ now' = now + ONE_SECOND
    /\ steps' = steps + 1
    /\ UNCHANGED <<cfg_test, tasks, TEST_SENDER, access_control, registry, state_manager,
                   operation_tracker, ret, admin_granted, upgraded>>

\* the maps a caller hands to track_state_changes: between two of them keys
\* are added, modified and deleted
TrackedStates ==
    {Put(EmptyMap, <<<<1, 1>>>>, <<<<7, 1>>>>),
     Put(Put(EmptyMap, <<<<1, 1>>>>, <<<<8, 1>>>>), <<<<2, 1>>>>, <<<<7, 1>>>>)}

\* track_state_changes(addr, &old_state, &new_state), called from outside
TrackStateChanges(addr, old_state, new_state) ==
    /\ steps < MaxStateSteps
    /\ state_manager' = track_state_changes(state_manager, addr, old_state, new_state)
    /\ ret' = Returned("track_state_changes", addr, "Ok")
    /\ steps' = steps + 1
    /\ UNCHANGED <<cfg_test, tasks, now, TEST_SENDER, access_control, registry, operation_tracker,
                   admin_granted, upgraded>>

NextState ==
    \/ \E addr \in StateAddrs, key \in StateKeys, value \in StateValues :
          UpdateState(addr, key, value)
    \/ \E addr \in StateAddrs, old_state \in TrackedStates, new_state \in TrackedStates :
          TrackStateChanges(addr, old_state, new_state)
    \/ \E addr \in StateAddrs : CreateSnapshot(addr)
    \/ \E addr \in StateAddrs, i \in 1..MaxStateSteps : RestoreFromSnapshot(addr, i)
    \/ StateTick

SpecState == InitState /\ [][NextState]_vars

(* C6: for every snapshot S0 of an address, whatever updates and snapshots    *)
(* came after or before it, restore_from_snapshot(addr, S0.timestamp)         *)
(* succeeds and leaves the state of addr equal to S0.state.                   *)
C6_RestoreGivesSnapshotState ==
    [][IsCall("restore_from_snapshot") =>
        /\ ret'.res = "Ok"
        /\ state_manager'.states[ret'.addr]
              = state_manager.snapshots[ret'.addr][ret'.idx].state]_vars

\* a restore by the timestamp of a snapshot returned Ok and left another state
C6_RestoredOtherSnapshot ==
    /\ ret.op = "restore_from_snapshot" /\ ret.res = "Ok"
    /\ state_manager.states[ret.addr]
          # state_manager.snapshots[ret.addr][ret.idx].state

\* every stored snapshot carries the hash of its own state field
SnapshotsIntact(self) ==
    \A a \in DOMAIN self.snapshots :
       \A i \in 1..Len(self.snapshots[a]) :
          /\ self.snapshots[a][i].state_hash
                = compute_state_hash(self.snapshots[a][i].state)
          /\ verify_state_integrity(self.snapshots[a][i])

(* C14: in every reachable state every stored snapshot of every address has   *)
(* state_hash equal to the hash recomputed from its state field, and a        *)
(* restore_from_snapshot by the timestamp of a stored snapshot never fails    *)
(* (the snapshot is found, so only the integrity check could refuse it).      *)
C14_SnapshotHashMatches ==
    /\ SnapshotsIntact(state_manager)
    /\ [][/\ SnapshotsIntact(state_manager')
          /\ (IsCall("restore_from_snapshot") => ret'.res = "Ok")]_vars

\* a snapshot of a state with entries, taken before a later update and a later
\* snapshot, was restored
C14_Witness ==
    /\ ret.op = "restore_from_snapshot" /\ ret.res = "Ok"
    /\ Len(state_manager.snapshots[ret.addr]) >= 2
    /\ state_manager.snapshots[ret.addr][1].state # EmptyMap
    /\ state_manager.snapshots[ret.addr][1].state_hash
          # state_manager.snapshots[ret.addr][2].state_hash

---------------------------------------------------------------------------
(* StateManager near its size caps: one address whose state is empty, or    *)
(* one entry short of MAX_STATE_SIZE, or one entry short of MAX_ENTRIES      *)

MaxCapsSteps == 3
NearCapEntries == 99
\* the address of the size tests, [0u8; 32]
CapsAddr == 0

\* an input of update_state: a key of MAX_KEY_SIZE bytes, the byte i, then zeros
FillKey(i) == <<<<i, 1>>, <<0, MAX_KEY_SIZE - 1>>>>
\* an input of update_state: the value that makes an entry under FillKey(i)
\* one MiB long
FillValue == <<<<0, MAX_VALUE_SIZE - MAX_KEY_SIZE>>>>

\* the manager after the calls update_state(addr, FillKey(i), FillValue) for
\* i = lo, ..., hi, in order, each of them within the caps
RECURSIVE FillState(_, _, _, _)
FillState(self, addr, lo, hi) ==
    IF lo > hi THEN self
    ELSE IF lo = hi THEN update_state(self, addr, FillKey(lo), FillValue).self
    ELSE LET mid == (lo + hi) \div 2
             half == FillState(self, addr, lo, mid)
         IN  IF half = half THEN FillState(half, addr, mid + 1, hi) ELSE half

\* the manager after the calls update_state(addr, "key{i}", [1]) for
\* i = 0, ..., n - 1 on a new manager: the n entries, and the n diffs that added
\* them, each as one run
BulkState(addr, n) ==
    LET run == Put(EmptyMap, BulkKeys, <<<<1, n>>>>)
    IN  [states |-> Put(EmptyMap, addr, run),
         snapshots |-> EmptyMap,
         diffs |-> Put(EmptyMap, addr,
                       <<[added |-> run, modified |-> EmptyMap, deleted |-> EmptyMap]>>)]

\* a one-byte key, a key at the cap that the filled state holds, one that it
\* does not hold, a key one byte over the cap, and the last key of the loop of
\* test_max_entries_limit and the one it tries after the loop
CapsKeys ==
    {<<<<1, 1>>>>, FillKey(1), FillKey(NearCapEntries + 1), <<<<0, MAX_KEY_SIZE + 1>>>>,
     KeyN(MAX_ENTRIES - 1), KeyN(MAX_ENTRIES)}
\* a one-byte value, the fill value, a value at the cap, one a byte over it, and
\* the value of test_state_size_limits (a tenth of MAX_STATE_SIZE)
CapsValues == {<<<<7, 1>>>>, FillValue, <<<<0, MAX_VALUE_SIZE>>>>,
               <<<<0, MAX_VALUE_SIZE + 1>>>>, <<<<0, MAX_STATE_SIZE \div 10>>>>}

InitCaps ==
    /\ now = 0
    /\ TEST_SENDER = TestSender_new
    /\ cfg_test \in BOOLEAN
    /\ access_control = AccessControl_new
    /\ registry = ContractRegistry_new
    /\ operation_tracker = OperationTracker_new
    /\ state_manager \in {StateManager_new,
                          FillState(StateManager_new, CapsAddr, 1, NearCapEntries),
                          BulkState(CapsAddr, MAX_ENTRIES - 1)}
    /\ ret = NoCall
    /\ steps = MaxStateSteps - MaxCapsSteps
    /\ admin_granted = FALSE
    /\ upgraded = EmptyMap
    /\ tasks = NoTasks

NextCaps ==
    \/ \E key \in CapsKeys, value \in CapsValues : UpdateState(CapsAddr, key, value)
    \/ \E old_state \in TrackedStates, new_state \in TrackedStates :
          TrackStateChanges(CapsAddr, old_state, new_state)
    \/ CreateSnapshot(CapsAddr)
    \/ \E i \in 1..MaxCapsSteps : RestoreFromSnapshot(CapsAddr, i)
    \/ StateTick

SpecCaps == InitCaps /\ [][NextCaps]_vars

\* the state map is within the four caps
WithinCaps(state) ==
    /\ \A k \in DOMAIN state \ {BulkKeys} :
          BLen(k) <= MAX_KEY_SIZE /\ BLen(state[k]) <= MAX_VALUE_SIZE
    /\ BulkKeys \in DOMAIN state => BLen(BulkKeys) <= MAX_KEY_SIZE
    /\ calculate_state_size(state) <= MAX_STATE_SIZE
    /\ state_len(state) <= MAX_ENTRIES

\* the state of addr, empty when it has none
StateOf(self, addr) ==
    IF addr \in DOMAIN self.states THEN self.states[addr] ELSE EmptyMap

(* C13: in every reachable state the state map of every contract has keys of  *)
(* at most 1 KiB, values of at most 1 MiB, at most 100 MiB of keys and values *)
(* together and at most 100 000 entries; an update_state whose key and value  *)
(* would take the map over one of these caps returns StateError and leaves    *)
(* the state maps and the diff log as they were.                              *)
C13_StateWithinCaps ==
    /\ \A a \in DOMAIN state_manager.states : WithinCaps(state_manager.states[a])
    /\ [][/\ \A a \in DOMAIN state_manager'.states : WithinCaps(state_manager'.states[a])
          /\ (IsCall("update_state")
              /\ ~WithinCaps(Put(StateOf(state_manager, ret'.addr),
                                 ret'.val[1], ret'.val[2])) =>
                 /\ ret'.res = "StateError"
                 /\ state_manager'.states = state_manager.states
                 /\ state_manager'.diffs = state_manager.diffs)]_vars

\* an update with a new key was refused by a full map: MAX_ENTRIES entries, each
\* key and value and their sum within the caps
C13_Witness ==
    /\ ret.op = "update_state" /\ ret.res = "StateError"
    /\ state_len(StateOf(state_manager, ret.addr)) = MAX_ENTRIES
    /\ ret.val[1] \notin DOMAIN StateOf(state_manager, ret.addr)
    /\ BLen(ret.val[1]) <= MAX_KEY_SIZE /\ BLen(ret.val[2]) <= MAX_VALUE_SIZE
    /\ calculate_state_size(StateOf(state_manager, ret.addr))
         + BLen(ret.val[1]) + BLen(ret.val[2]) <= MAX_STATE_SIZE

---------------------------------------------------------------------------
(* The facade: ContractRuntime::new() with the roles of the tests granted *)

MaxFacadeSteps == 4
NumContracts == 1
ContractAddrs == 1..NumContracts
NumCallers == 3
\* the accounts of tests/version_test.rs
ADMIN_ACCOUNT == 0
TEST_ACCOUNT == 0
UPGRADER_ACCOUNT == 1
\* account 0 is the admin, the deployer and the executor, account 1 the
\* upgrader, every other account holds no role
Callers == 0..(NumCallers - 1)

\* a call of msg::sender() that yields addr
CallerIs(addr) == [ok |-> TRUE, addr |-> addr]

\* the grants gs = <<role, account>>, ..., made in order by caller snd
RECURSIVE GrantAll(_, _, _)
GrantAll(rt, gs, snd) ==
    IF gs = << >> THEN rt
    ELSE GrantAll(ContractRuntime_grant_role(rt, Head(gs)[1], Head(gs)[2], snd).rt,
                  Tail(gs), snd)

\* the runtime setup_runtime() returns: the admin bootstraps itself and grants
\* the roles.  The caller of its grants is ADMIN_ACCOUNT in both builds (the
\* slot holds it, and the build without cfg(test) yields [0u8; 32] anyway).
SetupRuntime ==
    GrantAll(ContractRuntime_new,
             << <<DEFAULT_ADMIN_ROLE, ADMIN_ACCOUNT>>,
                <<DEPLOYER_ROLE, TEST_ACCOUNT>>,
                <<EXECUTOR_ROLE, TEST_ACCOUNT>>,
                <<UPGRADER_ROLE, UPGRADER_ACCOUNT>> >>,
             CallerIs(ADMIN_ACCOUNT))

\* TEST_SENDER as setup_runtime() leaves it: Some(TEST_ACCOUNT)
SetupSender == set_sender(set_sender(TestSender_new, ADMIN_ACCOUNT), TEST_ACCOUNT)

\* setup_runtime(), after which the admin has granted UPGRADER_ROLE to the test
\* account as well (runtime.grant_role(UPGRADER_ROLE, TEST_ACCOUNT))
SetupUpgrader ==
    GrantAll(SetupRuntime, << <<UPGRADER_ROLE, TEST_ACCOUNT>> >>, CallerIs(ADMIN_ACCOUNT))

\* the runtimes the facade starts from
FacadeSetups == {SetupRuntime, SetupUpgrader}

\* three bytes of bytecode
TestBytecode == <<<<1, 3>>>>
TestABI == [methods |-> <<"add", "loop_test">>]
TestKey == <<<<107, 1>>>>
TestValue == <<<<9, 1>>>>
DeployVersions == {<<1, 0, 0>>, <<1, 1, 0>>, <<1, 0>>}
UpgradeVersions == {<<1, 0, 0>>, <<1, 1, 0>>}

\* ContractMetadata as the caller fills it in
Metadata(version, created_at, updated_at, is_upgradeable) ==
    [version |-> version, created_at |-> created_at, updated_at |-> updated_at,
     author |-> 1, description |-> "test", is_upgradeable |-> is_upgradeable]

\* the OperationType each facade operation is tracked as
OperationTypeOf(op) ==
    IF op = "deploy_contract" THEN "Deploy"
    ELSE IF op = "upgrade_contract" THEN "Upgrade"
    ELSE IF op = "execute_contract" THEN "Execute"
    ELSE IF op = "rollback_contract" THEN "Rollback"
    ELSE "StateUpdate"

FacadeOps ==
    {"deploy_contract", "upgrade_contract", "execute_contract", "rollback_contract",
     "update_contract_state"}

\* whether a call of op on addr made now passes start_operation
Admitted(addr, op) ==
    start_operation(operation_tracker, addr, OperationTypeOf(op), now).res = "Ok"

\* ret after the facade call op on addr returned r
FacadeReturned(op, addr, r) ==
    [Returned(op, addr, r.res) EXCEPT !.admitted = Admitted(addr, op)]

Init ==
    /\ now = 0
    /\ TEST_SENDER = SetupSender
    /\ cfg_test \in BOOLEAN
    /\ \E rt \in FacadeSetups : SetRuntime0(rt)
    /\ ret = NoCall
    /\ steps = 0
    /\ admin_granted = TRUE
    /\ upgraded = EmptyMap
    /\ tasks = NoTasks

FacadeSetSender(addr) ==
    /\ steps < MaxFacadeSteps
    /\ TEST_SENDER' = set_sender(TEST_SENDER, addr)
    /\ steps' = steps + 1
    /\ UNCHANGED <<cfg_test, tasks, now, access_control, registry, state_manager, operation_tracker,
                   ret, admin_granted, upgraded>>

FacadeClearSender ==
    /\ steps < MaxFacadeSteps
    /\ TEST_SENDER' = clear_sender(TEST_SENDER)
    /\ steps' = steps + 1
    /\ UNCHANGED <<cfg_test, tasks, now, access_control, registry, state_manager, operation_tracker,
                   ret, admin_granted, upgraded>>

\* ContractRuntime::grant_role by the ambient caller
FacadeGrantRole(role, account) ==
    /\ steps < MaxFacadeSteps
    /\ \E r \in {ContractRuntime_grant_role(RT, role, account,
                                            sender(TEST_SENDER, cfg_test))} :
           /\ SetRuntime(r.rt)
           /\ ret' = [Returned("grant_role", account, r.res) EXCEPT
                        !.role = role, !.changed = r.val]
    /\ steps' = steps + 1
    /\ UNCHANGED <<cfg_test, tasks, now, TEST_SENDER, admin_granted, upgraded>>

FacadeTick ==
    /\ steps < MaxFacadeSteps
    /\ now' = now + MIN_UPGRADE_INTERVAL
    /\ steps' = steps + 1
    /\ UNCHANGED <<cfg_test, tasks, TEST_SENDER, access_control, registry, state_manager,
                   operation_tracker, ret, admin_granted, upgraded>>

\* deploy_contract with the metadata stamped with the current time
Deploy(addr, version, is_upgradeable) ==
    /\ steps < MaxFacadeSteps
    /\ \E r \in {deploy_contract(RT, TestBytecode, addr, TestABI,
                                 Metadata(version, now, now, is_upgradeable),
                                 sender(TEST_SENDER, cfg_test), now)} :
           /\ SetRuntime(r.rt)
           /\ ret' = [FacadeReturned("deploy_contract", addr, r) EXCEPT !.val = version]
           /\ upgraded' = IF r.res = "Ok" THEN Remove(upgraded, addr) ELSE upgraded
    /\ steps' = steps + 1
    /\ UNCHANGED <<cfg_test, tasks, now, TEST_SENDER, admin_granted>>

\* upgrade_contract with created_at the current time and updated_at as the caller
\* gives it (the current time, or 0 when stale), in a build with or without
\* overflow checks
Upgrade(addr, version, is_upgradeable, stale, overflow_checks) ==
    /\ steps < MaxFacadeSteps
    /\ \E r \in {upgrade_contract(RT, addr, TestBytecode, TestABI,
                                  Metadata(version, now, IF stale THEN 0 ELSE now,
                                           is_upgradeable),
                                  sender(TEST_SENDER, cfg_test), now, overflow_checks)} :
           /\ SetRuntime(r.rt)
           /\ ret' = [FacadeReturned("upgrade_contract", addr, r) EXCEPT !.val = version]
           /\ upgraded' =
                IF r.res = "Ok"
                THEN Put(upgraded, addr,
                         [version |-> get_latest_version(registry, addr).v[1],
                          state |-> state_manager.states[addr]])
                ELSE upgraded
    /\ steps' = steps + 1
    /\ UNCHANGED <<cfg_test, tasks, now, TEST_SENDER, admin_granted>>

Execute(addr, method) ==
    /\ steps < MaxFacadeSteps
    /\ \E r \in {execute_contract(RT, addr, method, <<1, 2>>, U64(1000), << >>,
                                  sender(TEST_SENDER, cfg_test), now, TRUE)} :
           /\ SetRuntime(r.rt)
           /\ ret' = [FacadeReturned("execute_contract", addr, r) EXCEPT !.val = r.val]
    /\ steps' = steps + 1
    /\ UNCHANGED <<cfg_test, tasks, now, TEST_SENDER, admin_granted, upgraded>>

Rollback(addr) ==
    /\ steps < MaxFacadeSteps
    /\ \E r \in {rollback_contract(RT, addr, sender(TEST_SENDER, cfg_test), now)} :
           /\ SetRuntime(r.rt)
           /\ ret' = FacadeReturned("rollback_contract", addr, r)
           /\ upgraded' = IF r.res = "Ok" THEN Remove(upgraded, addr) ELSE upgraded
    /\ steps' = steps + 1
    /\ UNCHANGED <<cfg_test, tasks, now, TEST_SENDER, admin_granted>>

UpdateContractState(addr, key, value) ==
    /\ steps < MaxFacadeSteps
    /\ \E r \in {update_contract_state(RT, addr, key, value, now)} :
           /\ SetRuntime(r.rt)
           /\ ret' = FacadeReturned("update_contract_state", addr, r)
    /\ steps' = steps + 1
    /\ UNCHANGED <<cfg_test, tasks, now, TEST_SENDER, admin_granted, upgraded>>

\* the roles the facade's grants name
FacadeRoles == {DEPLOYER_ROLE, UPGRADER_ROLE}

Next ==
    \/ \E a \in Callers : FacadeSetSender(a)
    \/ FacadeClearSender
    \/ \E role \in FacadeRoles, a \in Callers : FacadeGrantRole(role, a)
    \/ FacadeTick
    \/ \E addr \in ContractAddrs, version \in DeployVersions, is_upgradeable \in BOOLEAN :
          Deploy(addr, version, is_upgradeable)
    \/ \E addr \in ContractAddrs, version \in UpgradeVersions, is_upgradeable \in BOOLEAN,
          stale \in BOOLEAN, overflow_checks \in BOOLEAN :
          Upgrade(addr, version, is_upgradeable, stale, overflow_checks)
    \/ \E addr \in ContractAddrs : Execute(addr, "add")
    \/ \E addr \in ContractAddrs : Rollback(addr)
    \/ \E addr \in ContractAddrs : UpdateContractState(addr, TestKey, TestValue)

Spec == Init /\ [][Next]_vars

\* the active entries of addr, as a sequence
ActiveEntries(self, addr) ==
    IF addr \in DOMAIN self.active_operations THEN self.active_operations[addr] ELSE << >>

\* the role each guarded facade operation asks of its caller
RoleOf(op) ==
    IF op = "deploy_contract" THEN DEPLOYER_ROLE
    ELSE IF op = "execute_contract" THEN EXECUTOR_ROLE
    ELSE UPGRADER_ROLE

GuardedOps ==
    {"deploy_contract", "execute_contract", "upgrade_contract", "rollback_contract"}

\* this step is an admitted call of a guarded operation by an identified caller
\* who lacks the operation's role
IsCallWithoutRole ==
    /\ ret'.seq = steps' /\ ret'.op \in GuardedOps
    /\ ret'.admitted /\ ret'.caller.ok
    /\ ~AccessControl_has_role(access_control, RoleOf(ret'.op), ret'.caller.addr)

(* C3: an admitted deploy_contract, execute_contract, upgrade_contract or    *)
(* rollback_contract by a caller lacking DEPLOYER, EXECUTOR, UPGRADER,        *)
(* UPGRADER returns an error - AccessDenied for deploy and execute, whether   *)
(* or not the contract exists - and leaves the registry and the state         *)
(* manager (versions, states, snapshots, diffs of every address) unchanged.   *)
C3_RoleRequired ==
    [][IsCallWithoutRole =>
        /\ ret'.res # "Ok"
        /\ (ret'.op \in {"deploy_contract", "execute_contract"}
              => ret'.res = "AccessDenied")
        /\ registry' = registry
        /\ state_manager' = state_manager]_vars

\* execute_contract on an address without contract was refused with AccessDenied
C3_Witness ==
    /\ ret.op = "execute_contract" /\ ret.res = "AccessDenied"
    /\ ret.admitted /\ ret.caller.ok
    /\ ~AccessControl_has_role(access_control, EXECUTOR_ROLE, ret.caller.addr)
    /\ ~contract_exists(RT, ret.addr)

\* this step is a successful rollback_contract of an address whose newest
\* version came from upgrade_contract
IsRollbackOfUpgrade ==
    /\ IsCall("rollback_contract") /\ ret'.res = "Ok"
    /\ ret'.addr \in DOMAIN upgraded

(* C5: a successful rollback_contract(addr) after a deploy and an            *)
(* upgrade_contract makes the version that was newest before the upgrade the *)
(* latest one again and makes the contract state equal to the state stored   *)
(* in the snapshot taken just before that upgrade.                            *)
C5_RollbackRestoresPreUpgrade ==
    [][IsRollbackOfUpgrade =>
        /\ get_latest_version(registry', ret'.addr).v = <<upgraded[ret'.addr].version>>
        /\ state_manager'.states[ret'.addr] = upgraded[ret'.addr].state]_vars

\* a rollback returned Ok, the pre-upgrade version is the latest again, and the
\* state is not the one the upgrade had snapshotted
C5_RestoredOtherState ==
    /\ ret.op = "rollback_contract" /\ ret.res = "Ok"
    /\ \E i \in 1..Len(state_manager.snapshots[ret.addr]) :
          /\ i >= 2
          /\ state_manager.snapshots[ret.addr][i].state # state_manager.states[ret.addr]
          /\ state_manager.snapshots[ret.addr][i].version
                = get_latest_version(registry, ret.addr).v[1].metadata.version

\* the versions of vs created within the 24 h before t
CreatedToday(vs, t) ==
    LET Today(v) == v.metadata.created_at <= t
                    /\ t - v.metadata.created_at < SECONDS_PER_DAY
    IN  Len(SelectSeq(vs, Today))

(* C7: after every successful upgrade_contract the new version's updated_at  *)
(* is at least 3600 s after the updated_at of the version that was newest    *)
(* before, and at most 5 versions of the address have created_at within the  *)
(* last 24 h.                                                                 *)
C7_UpgradesSpaced ==
    [][(IsCall("upgrade_contract") /\ ret'.res = "Ok") =>
        LET vs == registry'.versions[ret'.addr]
        IN  /\ vs[Len(vs)].metadata.updated_at - vs[Len(vs) - 1].metadata.updated_at
                  >= MIN_UPGRADE_INTERVAL
            /\ CreatedToday(vs, now) <= MAX_UPGRADES_PER_DAY]_vars

\* an upgrade succeeded with an updated_at less than 3600 s after the previous one
C7_UpgradedTooClose ==
    /\ ret.op = "upgrade_contract" /\ ret.res = "Ok"
    /\ LET vs == registry.versions[ret.addr]
       IN  vs[Len(vs)].metadata.updated_at - vs[Len(vs) - 1].metadata.updated_at
              < MIN_UPGRADE_INTERVAL

\* this step registers a further version for an address that had one
RegistersFurtherVersion(addr) ==
    /\ addr \in DOMAIN registry.versions
    /\ Len(registry'.versions[addr]) > Len(registry.versions[addr])

(* C8: deploy_contract onto an address that has a version, by a caller who  *)
(* holds DEPLOYER and not UPGRADER, returns VersionConflict and registers    *)
(* nothing, whatever metadata.version is; and a further version of an        *)
(* existing contract is registered only for a caller holding UPGRADER.       *)
C8_DeployNeverUpgrades ==
    [][/\ (/\ IsCall("deploy_contract") /\ ret'.admitted /\ ret'.caller.ok
           /\ AccessControl_has_role(access_control, DEPLOYER_ROLE, ret'.caller.addr)
           /\ ~AccessControl_has_role(access_control, UPGRADER_ROLE, ret'.caller.addr)
           /\ contract_exists(RT, ret'.addr))
          => (ret'.res = "VersionConflict" /\ registry'.versions = registry.versions)
       /\ \A addr \in ContractAddrs :
             RegistersFurtherVersion(addr) =>
                AccessControl_has_role(access_control, UPGRADER_ROLE, ret'.caller.addr)
      ]_vars

\* a caller without UPGRADER deployed a second version onto an address
C8_DeployedOverExisting ==
    /\ ret.op = "deploy_contract" /\ ret.res = "Ok" /\ ret.caller.ok
    /\ ~AccessControl_has_role(access_control, UPGRADER_ROLE, ret.caller.addr)
    /\ Len(registry.versions[ret.addr]) >= 2

(* C15: after any sequence of facade operations, every address for which     *)
(* contract_exists is true has a state in the state manager and at least one *)
(* snapshot.                                                                 *)
C15_ExistingHasStateAndSnapshot ==
    \A addr \in ContractAddrs :
       contract_exists(RT, addr) =>
          /\ get_state(state_manager, addr) # << >>
          /\ get_snapshots(state_manager, addr) # << >>
          /\ Len(state_manager.snapshots[addr]) >= 1

\* a contract that was deployed, upgraded and rolled back exists
C15_Witness ==
    /\ ret.op = "rollback_contract" /\ ret.res = "Ok"
    /\ contract_exists(RT, ret.addr)

\* this step is a call that registers a version when it succeeds
IsRegistration == IsCall("deploy_contract") \/ IsCall("upgrade_contract")

\* the newest version of addr, before the step, is not upgradeable
NewestNotUpgradeable(addr) ==
    /\ contract_exists(RT, addr)
    /\ registry.versions[addr] # << >>
    /\ ~registry.versions[addr][Len(registry.versions[addr])].metadata.is_upgradeable

\* the version the call offers is strictly greater than the newest one of addr
OfferedIsGreater(addr) ==
    LET newest == semver_parse(registry.versions[addr][Len(registry.versions[addr])]
                                  .metadata.version)
        offered == semver_parse(ret'.val)
    IN  newest.ok /\ offered.ok /\ semver_lt(newest, offered)

\* the call passes every check the facade makes before it calls register_version
ReachesRegistry ==
    /\ ret'.admitted /\ ret'.caller.ok
    /\ IsCall("deploy_contract") =>
          AccessControl_has_role(access_control, DEPLOYER_ROLE, ret'.caller.addr)
    /\ IsCall("upgrade_contract") =>
          /\ AccessControl_has_role(access_control, UPGRADER_ROLE, ret'.caller.addr)
          /\ ContractRuntime_validate_contract_state(RT, ret'.addr) = "Ok"
          /\ check_upgrade_limits(RT, ret'.addr, now, FALSE) = "Ok"

C19_ActiveEntriesFresh ==
    /\ \A a \in DOMAIN operation_tracker.active_operations :
          \A i \in 1..Len(operation_tracker.active_operations[a]) :
             now - operation_tracker.active_operations[a][i].start_time
                < OPERATION_TIMEOUT
    /\ get_active_operations(RT)
          = TotalOperations(cleanup_expired_operations(operation_tracker, now))

\* get_active_operations() counts an entry that started 30 s ago or earlier
C19_CountsExpired ==
    /\ get_active_operations(RT)
          > TotalOperations(cleanup_expired_operations(operation_tracker, now))
    /\ \E a \in DOMAIN operation_tracker.active_operations :
          \E i \in 1..Len(operation_tracker.active_operations[a]) :
             now - operation_tracker.active_operations[a][i].start_time
                >= OPERATION_TIMEOUT

(* C20: execute_contract by a holder of EXECUTOR on an address that has no    *)
(* registered contract fails with NotFound and changes no state, snapshot or  *)
(* version.                                                                   *)
C20_ExecuteMissingIsNotFound ==
    [][(/\ IsCall("execute_contract") /\ ret'.admitted /\ ret'.caller.ok
        /\ AccessControl_has_role(access_control, EXECUTOR_ROLE, ret'.caller.addr)
        /\ ~contract_exists(RT, ret'.addr))
       => /\ ret'.res = "NotFound"
          /\ state_manager' = state_manager
          /\ registry' = registry]_vars

\* execute_contract by a holder of EXECUTOR on an address without a contract
\* returned StateValidationError
C20_ExecuteMissingIsStateValidation ==
    /\ ret.op = "execute_contract" /\ ret.res = "StateValidationError"
    /\ ret.admitted /\ ret.caller.ok
    /\ AccessControl_has_role(access_control, EXECUTOR_ROLE, ret.caller.addr)
    /\ ~contract_exists(RT, ret.addr)

---------------------------------------------------------------------------
(* The facade over two addresses, for what a call on one address leaves of *)
(* the other                                                               *)

MaxPairSteps == 4
NumPairContracts == 2
PairAddrs == 1..NumPairContracts

InitPair ==
    /\ now = 0
    /\ TEST_SENDER = SetupSender
    /\ cfg_test \in BOOLEAN
    /\ SetRuntime0(SetupUpgrader)
    /\ ret = NoCall
    /\ steps = MaxFacadeSteps - MaxPairSteps
    /\ admin_granted = TRUE
    /\ upgraded = EmptyMap
    /\ tasks = NoTasks

NextPair ==
    \/ \E a \in Callers : FacadeSetSender(a)
    \/ FacadeTick
    \/ \E addr \in PairAddrs, version \in DeployVersions, is_upgradeable \in BOOLEAN :
          Deploy(addr, version, is_upgradeable)
    \/ \E addr \in PairAddrs, version \in UpgradeVersions, is_upgradeable \in BOOLEAN,
          stale \in BOOLEAN, overflow_checks \in BOOLEAN :
          Upgrade(addr, version, is_upgradeable, stale, overflow_checks)
    \/ \E addr \in PairAddrs : Execute(addr, "add")
    \/ \E addr \in PairAddrs : Rollback(addr)
    \/ \E addr \in PairAddrs : UpdateContractState(addr, TestKey, TestValue)

SpecPair == InitPair /\ [][NextPair]_vars

(* C17: after a successful deploy_contract to an address that had no         *)
(* contract, the address exists, its state is exactly "_initialized" -> [1], *)
(* its snapshot list is one snapshot labelled metadata.version, its version  *)
(* history is that one version; contract_exists, state and snapshots of      *)
(* every other address are as before.                                        *)
C17_FreshDeploy ==
    [][IsCall("deploy_contract") /\ ret'.res = "Ok" /\ ~contract_exists(RT, ret'.addr) =>
        /\ get_contract_versions(registry', ret'.addr) # << >>
        /\ get_state(state_manager', ret'.addr)
              = <<Put(EmptyMap, B_initialized, <<<<1, 1>>>>)>>
        /\ get_snapshots(state_manager', ret'.addr) # << >>
        /\ Len(state_manager'.snapshots[ret'.addr]) = 1
        /\ state_manager'.snapshots[ret'.addr][1].version = ret'.val
        /\ state_manager'.snapshots[ret'.addr][1].state
              = Put(EmptyMap, B_initialized, <<<<1, 1>>>>)
        /\ Len(registry'.versions[ret'.addr]) = 1
        /\ registry'.versions[ret'.addr][1].metadata.version = ret'.val
        /\ \A o \in PairAddrs \ {ret'.addr} :
              /\ get_contract_versions(registry', o) = get_contract_versions(registry, o)
              /\ get_state(state_manager', o) = get_state(state_manager, o)
              /\ get_snapshots(state_manager', o) = get_snapshots(state_manager, o)]_vars

\* a first deploy to one address succeeded while the other address holds a
\* contract whose state was updated
C17_Witness ==
    /\ ret.op = "deploy_contract" /\ ret.res = "Ok"
    /\ Len(registry.versions[ret.addr]) = 1
    /\ Len(state_manager.snapshots[ret.addr]) = 1
    /\ \E o \in PairAddrs \ {ret.addr} :
          /\ contract_exists(RT, o)
          /\ TestKey \in DOMAIN state_manager.states[o]
---------------------------------------------------------------------------
(* The facade with the bytecode, the ABI, the state key and the arguments  *)
(* of loop_test varied                                                     *)

MaxVariantSteps == 4

\* the bytes 00 01 02 03 of test_error_handling
InvalidWasm == << <<0, 1>>, <<1, 1>>, <<2, 1>>, <<3, 1>> >>
\* the ABI of test_error_handling's invalid deployment: no method
EmptyABI == [methods |-> << >>]
\* TestABI without its method loop_test
ReducedABI == [methods |-> <<"add">>]
VariantBytecodes == {TestBytecode, InvalidWasm}
VariantABIs == {TestABI, ReducedABI, EmptyABI}
VariantVersions == {<<1, 0, 0>>, <<1, 1, 0>>}
VariantKeys == {TestKey, B_initialized}

\* the gas that i32::MAX iterations require
MaxRequired == U64Mul(U64(I32_MAX), 100).val
LoopCounts == {10, I32_MAX, -1}
GasLimits == {U64(999), U64(1000), MaxRequired, U64_MAX}

InitVariants ==
    /\ now = 0
    /\ TEST_SENDER = SetupSender
    /\ cfg_test \in BOOLEAN
    /\ SetRuntime0(SetupUpgrader)
    /\ ret = NoCall
    /\ steps = MaxFacadeSteps - MaxVariantSteps
    /\ admin_granted = TRUE
    /\ upgraded = EmptyMap
    /\ tasks = NoTasks

\* deploy_contract; ret.val is <<version, bytecode, methods of the ABI>>
DeployVariant(addr, version, bytecode, abi) ==
    /\ steps < MaxFacadeSteps
    /\ \E r \in {deploy_contract(RT, bytecode, addr, abi,
                                 Metadata(version, now, now, TRUE),
                                 sender(TEST_SENDER, cfg_test), now)} :
           /\ SetRuntime(r.rt)
           /\ ret' = [FacadeReturned("deploy_contract", addr, r)
                         EXCEPT !.val = <<version, bytecode, abi.methods>>]
    /\ steps' = steps + 1
    /\ UNCHANGED <<cfg_test, tasks, now, TEST_SENDER, admin_granted, upgraded>>

\* upgrade_contract; ret.val is <<version, bytecode, methods of the ABI>>
UpgradeVariant(addr, version, abi) ==
    /\ steps < MaxFacadeSteps
    /\ \E r \in {upgrade_contract(RT, addr, TestBytecode, abi,
                                  Metadata(version, now, now, TRUE),
                                  sender(TEST_SENDER, cfg_test), now, TRUE)} :
           /\ SetRuntime(r.rt)
           /\ ret' = [FacadeReturned("upgrade_contract", addr, r)
                         EXCEPT !.val = <<version, TestBytecode, abi.methods>>]
    /\ steps' = steps + 1
    /\ UNCHANGED <<cfg_test, tasks, now, TEST_SENDER, admin_granted, upgraded>>

\* execute_contract(addr, "loop_test", [I32 n], env with gas_limit, None);
\* ret.val is <<n, gas_limit, returned values>>
ExecuteLoop(addr, n, gas_limit, overflow_checks) ==
    /\ steps < MaxFacadeSteps
    /\ \E r \in {execute_contract(RT, addr, "loop_test", <<n>>, gas_limit, << >>,
                                  sender(TEST_SENDER, cfg_test), now, overflow_checks)} :
           /\ SetRuntime(r.rt)
           /\ ret' = [FacadeReturned("execute_contract", addr, r)
                         EXCEPT !.val = <<n, gas_limit, r.val>>]
    /\ steps' = steps + 1
    /\ UNCHANGED <<cfg_test, tasks, now, TEST_SENDER, admin_granted, upgraded>>

NextVariants ==
    \/ \E a \in Callers : FacadeSetSender(a)
    \/ FacadeTick
    \/ \E addr \in ContractAddrs, version \in VariantVersions,
          bytecode \in VariantBytecodes, abi \in VariantABIs :
          DeployVariant(addr, version, bytecode, abi)
    \/ \E addr \in ContractAddrs, version \in VariantVersions, abi \in VariantABIs :
          UpgradeVariant(addr, version, abi)
    \/ \E addr \in ContractAddrs, n \in LoopCounts, gas_limit \in GasLimits,
          overflow_checks \in BOOLEAN :
          ExecuteLoop(addr, n, gas_limit, overflow_checks)
    \/ \E addr \in ContractAddrs, key \in VariantKeys :
          UpdateContractState(addr, key, TestValue)

SpecVariants == InitVariants /\ [][NextVariants]_vars

\* this step is a deploy_contract of the bytes 00 01 02 03 by a holder of
\* DEPLOYER that was admitted
IsInvalidDeploy ==
    /\ IsCall("deploy_contract") /\ ret'.val[2] = InvalidWasm
    /\ ret'.admitted /\ ret'.caller.ok
    /\ AccessControl_has_role(access_control, DEPLOYER_ROLE, ret'.caller.addr)

(* C21: deploy_contract with bytecode that is not a valid module (the bytes  *)
(* 00 01 02 03) fails with CompilationError and registers no version for the *)
(* address.                                                                  *)
C21_InvalidBytecodeRefused ==
    [][IsInvalidDeploy =>
        /\ ret'.res = "CompilationError"
        /\ get_contract_versions(registry', ret'.addr)
              = get_contract_versions(registry, ret'.addr)]_vars

\* a deploy_contract of the bytes 00 01 02 03 returned Ok and the address has
\* a version with that bytecode
C21_InvalidBytecodeRegistered ==
    /\ ret.op = "deploy_contract" /\ ret.res = "Ok" /\ ret.val[2] = InvalidWasm
    /\ contract_exists(RT, ret.addr)
    /\ get_latest_version(registry, ret.addr).v[1].bytecode = InvalidWasm
\* floor(x / k) on u64 for a small k, by long division from the top limb
U64Div(x, k) ==
    LET c4 == x[4]
        c3 == (c4 % k) * Limb + x[3]
        c2 == (c3 % k) * Limb + x[2]
        c1 == (c2 % k) * Limb + x[1]
    IN  <<c1 \div k, c2 \div k, c3 \div k, c4 \div k>>

\* this step is execute_contract(addr, "loop_test", [I32 n], env, None) with
\* n >= 0, admitted, by a holder of EXECUTOR, on a deployed contract whose
\* newest ABI lists loop_test
IsLoopTest ==
    /\ IsCall("execute_contract") /\ ret'.val[1] >= 0
    /\ ret'.admitted /\ ret'.caller.ok
    /\ AccessControl_has_role(access_control, EXECUTOR_ROLE, ret'.caller.addr)
    /\ ContractRuntime_validate_contract_state(RT, ret'.addr) = "Ok"
    /\ \E i \in 1..Len(get_latest_version(registry, ret'.addr).v[1].abi.methods) :
          get_latest_version(registry, ret'.addr).v[1].abi.methods[i] = "loop_test"

(* C22: for a deployed contract whose ABI lists loop_test and a caller       *)
(* holding EXECUTOR, execute_contract(addr, "loop_test", [I32 n], env) fails *)
(* with ExecutionError (gas limit exceeded) exactly when n * 100 >           *)
(* env.gas_limit, that is when n > floor(gas_limit / 100), and returns an    *)
(* empty result otherwise, for every i32 n >= 0 and every 64-bit gas_limit.  *)
C22_GasLimitExceeded ==
    [][IsLoopTest =>
        IF U64Greater(U64(ret'.val[1]), U64Div(ret'.val[2], 100))
        THEN ret'.res = "ExecutionError"
        ELSE ret'.res = "Ok" /\ ret'.val[3] = << >>]_vars

\* loop_test with i32::MAX iterations and exactly the gas they require
\* returned an empty result
C22_Witness ==
    /\ ret.op = "execute_contract" /\ ret.res = "Ok"
    /\ ret.val[1] = I32_MAX /\ ret.val[2] = MaxRequired /\ ret.val[3] = << >>
\* the methods an ABI lists, as a set
MethodsOf(methods) == {methods[i] : i \in 1..Len(methods)}

\* the ABI this registration offers omits a method of the newest version of addr
OmitsMethod(addr) ==
    /\ contract_exists(RT, addr)
    /\ registry.versions[addr] # << >>
    /\ MethodsOf(registry.versions[addr][Len(registry.versions[addr])].abi.methods)
          \ MethodsOf(ret'.val[3]) # {}

(* C23: registering a new version of an existing contract whose ABI omits a  *)
(* method that the current version's ABI contains is rejected with           *)
(* VersionConflict, and the version history is unchanged (for a registration *)
(* that passes the checks the facade makes before register_version).         *)
C23_MissingMethodRefused ==
    [][IsRegistration /\ ReachesRegistry /\ OmitsMethod(ret'.addr) =>
        /\ ret'.res = "VersionConflict"
        /\ registry'.versions = registry.versions]_vars

\* a registration returned Ok and the newest version of the address lacks a
\* method that the version before it lists
C23_MissingMethodRegistered ==
    /\ ret.op \in {"deploy_contract", "upgrade_contract"} /\ ret.res = "Ok"
    /\ Len(registry.versions[ret.addr]) >= 2
    /\ LET vs == registry.versions[ret.addr]
       IN  MethodsOf(vs[Len(vs) - 1].abi.methods) \ MethodsOf(vs[Len(vs)].abi.methods) # {}
\* this step is a successful registration for an address that had a contract
IsFurtherRegistration ==
    /\ IsRegistration /\ ret'.res = "Ok"
    /\ contract_exists(RT, ret'.addr)
    /\ get_state(state_manager, ret'.addr) # << >>

(* C24, as stated: a successful registration of a new version for an         *)
(* existing contract, by upgrade_contract or by deploy_contract onto the     *)
(* existing address, leaves every key and value of the contract's state      *)
(* unchanged.                                                                *)
C24_RegistrationKeepsState ==
    [][IsFurtherRegistration =>
        get_state(state_manager', ret'.addr) = get_state(state_manager, ret'.addr)]_vars

(* C24, amended: upgrade_contract leaves every key and value unchanged;      *)
(* deploy_contract onto the existing address leaves every key and value      *)
(* unchanged except "_initialized", which it writes as [1] again.            *)
C24_RegistrationKeepsStateButBootstrap ==
    [][IsFurtherRegistration =>
        IF IsCall("upgrade_contract")
        THEN get_state(state_manager', ret'.addr) = get_state(state_manager, ret'.addr)
        ELSE get_state(state_manager', ret'.addr)
                = <<Put(state_manager.states[ret'.addr], B_initialized, <<<<1, 1>>>>)>>]_vars

\* a second version was registered by deploy_contract for a contract whose
\* state holds a key written by update_contract_state
C24_Witness ==
    /\ ret.op = "deploy_contract" /\ ret.res = "Ok"
    /\ Len(registry.versions[ret.addr]) >= 2
    /\ TestKey \in DOMAIN state_manager.states[ret.addr]
    /\ state_manager.states[ret.addr][TestKey] = TestValue
---------------------------------------------------------------------------
(* Tasks that share one runtime behind a reader-writer gate                *)
(* (Arc<RwLock<ContractRuntime>>), as in test_state_integrity_under_load:  *)
(* each task takes the write gate, calls update_contract_state with its    *)
(* own key, reads the state and releases the gate when it ends.            *)

NumTasks == 4
Tasks == 1..NumTasks
\* the contract the tasks write to
GateAddr == 2

\* "key_" and "value_" followed by the digit of task i
KeyOf(i) == << <<107, 1>>, <<101, 1>>, <<121, 1>>, <<95, 1>>, <<48 + i, 1>> >>
ValueOf(i) ==
    << <<118, 1>>, <<97, 1>>, <<108, 1>>, <<117, 1>>, <<101, 1>>, <<95, 1>>,
       <<48 + i, 1>> >>

\* the fixtures of tests/performance_test.rs: the eight bytes of the Wasm
\* header, an ABI with the one method "test", metadata written by account 0
create_test_contract ==
    << <<0, 1>>, <<97, 1>>, <<115, 1>>, <<109, 1>>, <<1, 1>>, <<0, 3>> >>
create_test_abi == [methods |-> <<"test">>]
create_test_metadata(version, t) ==
    [version |-> version, created_at |-> t, updated_at |-> t,
     author |-> 0, description |-> "Test Contract", is_upgradeable |-> TRUE]

\* the runtime of setup_test_account (the admin, account 0, holds DEFAULT_ADMIN
\* and DEPLOYER), on which the admin has deployed "1.0.0" at GateAddr
GateRuntime ==
    deploy_contract(GrantAll(ContractRuntime_new,
                             << <<DEFAULT_ADMIN_ROLE, ADMIN_ACCOUNT>>,
                                <<DEPLOYER_ROLE, ADMIN_ACCOUNT>> >>,
                             CallerIs(ADMIN_ACCOUNT)),
                    create_test_contract, GateAddr, create_test_abi,
                    create_test_metadata(<<1, 0, 0>>, 0),
                    CallerIs(ADMIN_ACCOUNT), 0).rt

\* a task's reading: << >> is None, <<v>> is Some(v)
ReadOf(rt, i) ==
    IF get_contract_state(rt, GateAddr) = << >> THEN << >>
    ELSE IF KeyOf(i) \in DOMAIN get_contract_state(rt, GateAddr)[1]
    THEN << <<get_contract_state(rt, GateAddr)[1][KeyOf(i)]>> >>
    ELSE << << >> >>

InitGate ==
    /\ now = 0
    /\ TEST_SENDER = set_sender(clear_sender(TestSender_new), ADMIN_ACCOUNT)
    /\ cfg_test \in BOOLEAN
    /\ SetRuntime0(GateRuntime)
    /\ ret = NoCall
    /\ steps = 0
    /\ admin_granted = TRUE
    /\ upgraded = EmptyMap
    /\ tasks = [gate |-> 0,
                pc |-> [i \in Tasks |-> "spawned"],
                result |-> [i \in Tasks |-> "Pending"],
                read |-> [i \in Tasks |-> << >>]]

\* runtime.write().await: granted when no task holds the gate
AcquireWrite(i) ==
    /\ tasks.pc[i] = "spawned"
    /\ tasks.gate = 0
    /\ tasks' = [tasks EXCEPT !.gate = i, !.pc[i] = "locked"]
    /\ UNCHANGED <<cfg_test, now, TEST_SENDER, access_control, registry, state_manager,
                   operation_tracker, ret, steps, admin_granted, upgraded>>

TaskUpdate(i) ==
    /\ tasks.pc[i] = "locked"
    /\ \E r \in {update_contract_state(RT, GateAddr, KeyOf(i), ValueOf(i), now)} :
           /\ SetRuntime(r.rt)
           /\ ret' = [Returned("update_contract_state", GateAddr, r.res)
                         EXCEPT !.idx = i]
           /\ tasks' = [tasks EXCEPT !.pc[i] = "updated", !.result[i] = r.res]
    /\ steps' = steps + 1
    /\ UNCHANGED <<cfg_test, now, TEST_SENDER, admin_granted, upgraded>>

TaskRead(i) ==
    /\ tasks.pc[i] = "updated"
    /\ tasks' = [tasks EXCEPT !.pc[i] = "read", !.read[i] = ReadOf(RT, i)]
    /\ UNCHANGED <<cfg_test, now, TEST_SENDER, access_control, registry, state_manager,
                   operation_tracker, ret, steps, admin_granted, upgraded>>

\* the task ends and its guard is dropped
ReleaseWrite(i) ==
    /\ tasks.pc[i] = "read"
    /\ tasks.gate = i
    /\ tasks' = [tasks EXCEPT !.gate = 0, !.pc[i] = "done"]
    /\ UNCHANGED <<cfg_test, now, TEST_SENDER, access_control, registry, state_manager,
                   operation_tracker, ret, steps, admin_granted, upgraded>>

NextGate ==
    \/ \E i \in Tasks : AcquireWrite(i)
    \/ \E i \in Tasks : TaskUpdate(i)
    \/ \E i \in Tasks : TaskRead(i)
    \/ \E i \in Tasks : ReleaseWrite(i)

SpecGate == InitGate /\ [][NextGate]_vars

(* C25: with N <= 100 tasks sharing one runtime behind a reader-writer gate, *)
(* each taking the write gate, calling update_contract_state on the same     *)
(* deployed contract with its own key and reading the state before it        *)
(* releases the gate: under every order of gate acquisition every update     *)
(* succeeds, every task reads back its own value, and after all tasks have   *)
(* finished the state contains all N keys.                                   *)
C25_UpdatesUnderGate ==
    /\ \A i \in Tasks :
          /\ tasks.pc[i] \in {"updated", "read", "done"} => tasks.result[i] = "Ok"
          /\ tasks.pc[i] \in {"read", "done"} => tasks.read[i] = << <<ValueOf(i)>> >>
    /\ (\A i \in Tasks : tasks.pc[i] = "done") =>
          \A i \in Tasks :
             /\ KeyOf(i) \in DOMAIN state_manager.states[GateAddr]
             /\ state_manager.states[GateAddr][KeyOf(i)] = ValueOf(i)

\* every task has finished, the last of them to acquire the gate being task 1
C25_Witness ==
    /\ \A i \in Tasks : tasks.pc[i] = "done"
    /\ ret.op = "update_contract_state" /\ ret.idx = 1
    /\ Cardinality(DOMAIN state_manager.states[GateAddr]) = NumTasks + 1
---------------------------------------------------------------------------
(* Further properties of the facade (Spec): snapshots, version conflicts,  *)
(* rollback                                                                *)

\* the snapshot list of addr, empty when there is none
SnapshotsOf(self, addr) ==
    IF addr \in DOMAIN self.snapshots THEN self.snapshots[addr] ELSE << >>

\* the number of snapshots of addr this step appends
Appended(addr) ==
    Len(SnapshotsOf(state_manager', addr)) - Len(SnapshotsOf(state_manager, addr))

\* this step is an upgrade_contract that passes its precondition checks
\* (admission, role, contract state, upgrade limits, bytecode)
IsCheckedUpgrade ==
    /\ IsCall("upgrade_contract") /\ ReachesRegistry
    /\ ContractRuntime_verify_bytecode(TestBytecode) = "Ok"

\* this step is an execute_contract that selects a version (admitted, by a
\* holder of EXECUTOR, on a contract with a state)
IsSelectingExecute ==
    /\ IsCall("execute_contract") /\ ret'.admitted /\ ret'.caller.ok
    /\ AccessControl_has_role(access_control, EXECUTOR_ROLE, ret'.caller.addr)
    /\ ContractRuntime_validate_contract_state(RT, ret'.addr) = "Ok"
    /\ get_latest_version(registry, ret'.addr).res = "Ok"

(* C26: the snapshot list of an address is append-only: no operation         *)
(* (rollback_contract and restore_from_snapshot included) removes or alters  *)
(* an existing snapshot; exactly one snapshot is appended by each successful *)
(* deploy_contract, by each upgrade_contract that passes its precondition    *)
(* checks and by each execute_contract that selects a version, and none is   *)
(* appended by update_contract_state or rollback_contract.                   *)
C26_SnapshotsAppendOnly ==
    [][\A addr \in ContractAddrs :
          /\ Appended(addr) \in {0, 1}
          /\ SubSeq(SnapshotsOf(state_manager', addr), 1,
                    Len(SnapshotsOf(state_manager, addr)))
                = SnapshotsOf(state_manager, addr)
          /\ (ret'.addr = addr /\ IsCall("deploy_contract") /\ ret'.res = "Ok")
                => Appended(addr) = 1
          /\ (ret'.addr = addr /\ IsCheckedUpgrade) => Appended(addr) = 1
          /\ (ret'.addr = addr /\ IsSelectingExecute) => Appended(addr) = 1
          /\ (IsCall("update_contract_state") \/ IsCall("rollback_contract"))
                => Appended(addr) = 0]_vars

\* a rollback_contract succeeded on an address with three snapshots or more,
\* all of them still in the list
C26_Witness ==
    /\ ret.op = "rollback_contract" /\ ret.res = "Ok"
    /\ Len(SnapshotsOf(state_manager, ret.addr)) >= 3
\* the version the call offers is equal to or lower than the newest one of addr
OfferedIsNotGreater(addr) ==
    LET newest == semver_parse(registry.versions[addr][Len(registry.versions[addr])]
                                  .metadata.version)
        offered == semver_parse(ret'.val)
    IN  newest.ok /\ offered.ok /\ semver_le(offered, newest)

\* this step is an upgrade_contract, admitted, by a holder of UPGRADER, on an
\* existing contract, offering a version that is not greater than the newest
IsStaleUpgrade ==
    /\ IsCall("upgrade_contract") /\ ret'.admitted /\ ret'.caller.ok
    /\ AccessControl_has_role(access_control, UPGRADER_ROLE, ret'.caller.addr)
    /\ ContractRuntime_validate_contract_state(RT, ret'.addr) = "Ok"
    /\ OfferedIsNotGreater(ret'.addr)

(* C27: upgrade_contract by a holder of UPGRADER on an existing contract     *)
(* with metadata.version equal to or lower than the newest registered        *)
(* version returns VersionConflict and leaves the version history unchanged, *)
(* whenever it is called (also directly after the deployment).               *)
C27_StaleUpgradeIsVersionConflict ==
    [][IsStaleUpgrade =>
        /\ ret'.res = "VersionConflict"
        /\ registry'.versions = registry.versions]_vars

\* an upgrade_contract by a holder of UPGRADER that offered a version not
\* greater than the newest one returned UpgradeLimitExceeded
C27_StaleUpgradeIsLimitExceeded ==
    /\ ret.op = "upgrade_contract" /\ ret.res = "UpgradeLimitExceeded"
    /\ ret.admitted /\ ret.caller.ok
    /\ AccessControl_has_role(access_control, UPGRADER_ROLE, ret.caller.addr)
    /\ LET vs == registry.versions[ret.addr]
       IN  /\ semver_parse(vs[Len(vs)].metadata.version).ok
           /\ semver_le(semver_parse(ret.val), semver_parse(vs[Len(vs)].metadata.version))
           /\ ret.t - vs[Len(vs)].metadata.updated_at < MIN_UPGRADE_INTERVAL
---------------------------------------------------------------------------
(* Further properties of the operation tracker (SpecTracker) *)

\* the sequence s without its i-th element
WithoutAt(s, i) == SubSeq(s, 1, i - 1) \o SubSeq(s, i + 1, Len(s))

(* C28: end_operation(addr, op_type) removes exactly one active entry of     *)
(* addr whose type equals op_type, any other active entries of the same      *)
(* address and type staying active; it removes nothing when no entry         *)
(* matches; it drops the addr key when its list becomes empty, so that no    *)
(* address ever maps to an empty list.                                       *)
C28_EndRemovesOne ==
    [][IsCall("end_operation") =>
        LET old == ActiveList(operation_tracker, ret'.addr)
            new == ActiveList(operation_tracker', ret'.addr)
            matching == {i \in 1..Len(old) : old[i].operation_type = ret'.val[1]}
        IN  /\ IF matching = {} THEN new = old
               ELSE \E i \in matching : new = WithoutAt(old, i)
            /\ \A a \in DOMAIN operation_tracker'.active_operations :
                  operation_tracker'.active_operations[a] # << >>
            /\ \A a \in DOMAIN operation_tracker.active_operations \ {ret'.addr} :
                  ActiveList(operation_tracker', a) = ActiveList(operation_tracker, a)
      ]_vars

\* two operations were started on a new tracker and one end_operation has left
\* no active entry
C28_EndRemovedBoth ==
    /\ ret.op = "end_operation" /\ ret.seq = 3 /\ now = 0
    /\ Len(operation_tracker.operation_history) = 2
    /\ operation_tracker.active_operations = EmptyMap
---------------------------------------------------------------------------
(* The facade for rollback_contract: one deployment more than Spec makes, *)
(* by the caller that setup_runtime() leaves                              *)

MaxRollbackSteps == 5

InitRollback ==
    /\ now = 0
    /\ TEST_SENDER = SetupSender
    /\ cfg_test \in BOOLEAN
    /\ \E rt \in FacadeSetups : SetRuntime0(rt)
    /\ ret = NoCall
    /\ steps = MaxFacadeSteps - MaxRollbackSteps
    /\ admin_granted = TRUE
    /\ upgraded = EmptyMap
    /\ tasks = NoTasks

NextRollback ==
    \/ FacadeTick
    \/ \E addr \in ContractAddrs, version \in UpgradeVersions :
          Deploy(addr, version, TRUE)
    \/ \E addr \in ContractAddrs : Upgrade(addr, <<1, 1, 0>>, TRUE, FALSE, TRUE)
    \/ \E addr \in ContractAddrs : Execute(addr, "add")
    \/ \E addr \in ContractAddrs : Rollback(addr)
    \/ \E addr \in ContractAddrs : UpdateContractState(addr, TestKey, TestValue)

SpecRollback == InitRollback /\ [][NextRollback]_vars

---------------------------------------------------------------------------
(* Further properties of the facade (SpecRollback): rollback_contract *)

(* C29: a successful rollback_contract(addr) sets the contract state to the  *)
(* state stored in the second-newest snapshot of addr (position len-2 of the *)
(* snapshot list), for every snapshot list with at least two entries,        *)
(* including lists in which several snapshots carry the same timestamp.      *)
C29_RollbackRestoresSecondNewest ==
    [][IsCall("rollback_contract") /\ ret'.res = "Ok" =>
        LET snapshots == SnapshotsOf(state_manager, ret'.addr)
        IN  /\ Len(snapshots) >= 2
            /\ get_state(state_manager', ret'.addr)
                  = <<snapshots[Len(snapshots) - 1].state>>]_vars

\* after a successful rollback_contract the state differs from the state of
\* the second-newest snapshot and equals that of an older snapshot with the
\* same timestamp
C29_RestoredOlderSnapshot ==
    /\ ret.op = "rollback_contract" /\ ret.res = "Ok"
    /\ LET snapshots == SnapshotsOf(state_manager, ret.addr)
       IN  /\ Len(snapshots) >= 3
           /\ state_manager.states[ret.addr] # snapshots[Len(snapshots) - 1].state
           /\ \E i \in 1..(Len(snapshots) - 2) :
                 /\ snapshots[i].timestamp = snapshots[Len(snapshots) - 1].timestamp
                 /\ state_manager.states[ret.addr] = snapshots[i].state
\* the upgrade records of addr, empty when there are none
UpgradeRecordsOf(self, addr) ==
    IF addr \in DOMAIN self.upgrade_history THEN self.upgrade_history[addr] ELSE << >>

(* C30: if rollback_contract(addr) returns an error, the contract state, the *)
(* version history and the upgrade records of addr are the same as before    *)
(* the call, on every error exit, the exit where registry.rollback_version   *)
(* fails after a snapshot was selected included.                             *)
C30_FailedRollbackChangesNothing ==
    [][IsCall("rollback_contract") /\ ret'.res # "Ok" =>
        /\ get_state(state_manager', ret'.addr) = get_state(state_manager, ret'.addr)
        /\ get_contract_versions(registry', ret'.addr)
              = get_contract_versions(registry, ret'.addr)
        /\ UpgradeRecordsOf(registry', ret'.addr) = UpgradeRecordsOf(registry, ret'.addr)
      ]_vars

\* rollback_contract returned StateRollbackFailed for a contract with a single
\* version, and the state has lost a key that the newest snapshot holds
C30_FailedRollbackRestored ==
    /\ ret.op = "rollback_contract" /\ ret.res = "StateRollbackFailed"
    /\ Len(registry.versions[ret.addr]) = 1
    /\ LET snapshots == SnapshotsOf(state_manager, ret.addr)
       IN  /\ Len(snapshots) >= 2
           /\ TestKey \in DOMAIN snapshots[Len(snapshots)].state
           /\ TestKey \notin DOMAIN state_manager.states[ret.addr]
---------------------------------------------------------------------------
(* The facade around check_upgrade_limits: version histories of one to     *)
(* MAX_UPGRADES_PER_DAY entries, metadata timestamps at, before or after   *)
(* the clock                                                               *)

MaxLimitSteps == 3
\* how far in the future a caller may stamp updated_at
FutureOffset == 2 * MIN_UPGRADE_INTERVAL
LimitTicks == {1, MIN_UPGRADE_INTERVAL - 1, SECONDS_PER_DAY - MIN_UPGRADE_INTERVAL}
LimitVersions == {<<2, 0, 0>>, <<2, 1, 0>>}

\* the versions "1.lo.0" .. "1.hi.0" deployed in order at time t by the test
\* account
RECURSIVE DeployMany(_, _, _, _, _)
DeployMany(rt, addr, lo, hi, t) ==
    IF lo > hi THEN rt
    ELSE DeployMany(deploy_contract(rt, TestBytecode, addr, TestABI,
                                    Metadata(<<1, lo, 0>>, t, t, TRUE),
                                    CallerIs(TEST_ACCOUNT), t).rt,
                    addr, lo + 1, hi, t)

InitLimits ==
    /\ now = 0
    /\ TEST_SENDER = SetupSender
    /\ cfg_test \in BOOLEAN
    /\ \E n \in {0, 1, MAX_UPGRADES_PER_DAY - 1, MAX_UPGRADES_PER_DAY} :
          SetRuntime0(DeployMany(SetupUpgrader, 1, 1, n, 0))
    /\ ret = NoCall
    /\ steps = MaxFacadeSteps - MaxLimitSteps
    /\ admin_granted = TRUE
    /\ upgraded = EmptyMap
    /\ tasks = NoTasks

LimitsTick(d) ==
    /\ steps < MaxFacadeSteps
    /\ now' = now + d
    /\ steps' = steps + 1
    /\ UNCHANGED <<cfg_test, tasks, TEST_SENDER, access_control, registry, state_manager,
                   operation_tracker, ret, admin_granted, upgraded>>

\* deploy_contract with created_at the current time and updated_at the current
\* time or FutureOffset later
DeployAt(addr, version, future) ==
    /\ steps < MaxFacadeSteps
    /\ \E r \in {deploy_contract(RT, TestBytecode, addr, TestABI,
                                 Metadata(version, now,
                                          IF future THEN now + FutureOffset ELSE now, TRUE),
                                 sender(TEST_SENDER, cfg_test), now)} :
           /\ SetRuntime(r.rt)
           /\ ret' = [FacadeReturned("deploy_contract", addr, r) EXCEPT !.val = version]
    /\ steps' = steps + 1
    /\ UNCHANGED <<cfg_test, tasks, now, TEST_SENDER, admin_granted, upgraded>>

\* upgrade_contract in a build with or without overflow checks
UpgradeAt(addr, version, overflow_checks) ==
    /\ steps < MaxFacadeSteps
    /\ \E r \in {upgrade_contract(RT, addr, TestBytecode, TestABI,
                                  Metadata(version, now, now, TRUE),
                                  sender(TEST_SENDER, cfg_test), now, overflow_checks)} :
           /\ SetRuntime(r.rt)
           /\ ret' = [FacadeReturned("upgrade_contract", addr, r)
                         EXCEPT !.val = version, !.changed = overflow_checks]
    /\ steps' = steps + 1
    /\ UNCHANGED <<cfg_test, tasks, now, TEST_SENDER, admin_granted, upgraded>>

NextLimits ==
    \/ \E a \in Callers : FacadeSetSender(a)
    \/ \E d \in LimitTicks : LimitsTick(d)
    \/ \E addr \in ContractAddrs, version \in LimitVersions, future \in BOOLEAN :
          DeployAt(addr, version, future)
    \/ \E addr \in ContractAddrs, version \in LimitVersions, overflow_checks \in BOOLEAN :
          UpgradeAt(addr, version, overflow_checks)

SpecLimits == InitLimits /\ [][NextLimits]_vars

\* this step is an upgrade_contract that gets as far as check_upgrade_limits
IsLimitChecked ==
    /\ IsCall("upgrade_contract") /\ ret'.admitted /\ ret'.caller.ok
    /\ AccessControl_has_role(access_control, UPGRADER_ROLE, ret'.caller.addr)
    /\ ContractRuntime_validate_contract_state(RT, ret'.addr) = "Ok"

\* now - updated_at of the newest version of addr is below 3600 s, updated_at in
\* the future included
TooSoon(addr) ==
    LET vs == registry.versions[addr]
    IN  now - vs[Len(vs)].metadata.updated_at < MIN_UPGRADE_INTERVAL

\* 5 or more versions of addr have created_at within the last 86 400 s
TooMany(addr) ==
    LET vs == registry.versions[addr]
    IN  Cardinality({i \in 1..Len(vs) :
                        now - vs[i].metadata.created_at < SECONDS_PER_DAY})
           >= MAX_UPGRADES_PER_DAY

(* C31: the upgrade limit check of upgrade_contract rejects with             *)
(* UpgradeLimitExceeded whenever now - updated_at of the newest version is   *)
(* below 3600 s, also when that updated_at lies in the future of the clock,  *)
(* and whenever 5 or more versions of the address have created_at within the *)
(* last 86 400 s; otherwise the check passes.                                *)
C31_LimitCheck ==
    [][IsLimitChecked =>
        IF TooSoon(ret'.addr) \/ TooMany(ret'.addr)
        THEN ret'.res = "UpgradeLimitExceeded"
        ELSE ret'.res \notin {"UpgradeLimitExceeded", "Panic"}]_vars

\* an upgrade_contract, in a build without overflow checks, returned Ok and
\* registered a version although updated_at of the version it replaced as the
\* newest lies in the future of the clock
C31_FutureStampPasses ==
    /\ ret.op = "upgrade_contract" /\ ret.res = "Ok" /\ ~ret.changed
    /\ LET vs == registry.versions[ret.addr]
       IN  /\ Len(vs) >= 2
           /\ vs[Len(vs) - 1].metadata.updated_at > now
\* ---------------------------------------------------------------------------
\* Role administration (access control)
\* ---------------------------------------------------------------------------

\* this step is grant_role or revoke_role made by an identified caller
IsGrantOrRevoke ==
    (IsCall("grant_role") \/ IsCall("revoke_role")) /\ ret'.caller.ok

\* this step is the bootstrap grant
IsBootstrapGrant ==
    IsCall("grant_role") /\ is_first_admin(access_control, ret'.role)

\* the admin role of role as the role-admin map records it: the role that the
\* last successful set_role_admin named, DEFAULT_ADMIN_ROLE when there was none
RecordedAdmin(self, role) ==
    IF role \in DOMAIN self.role_admins THEN self.role_admins[role]
    ELSE DEFAULT_ADMIN_ROLE

\* the caller of this step holds the recorded admin role of the role it names
CallerHoldsAdmin ==
    /\ ret'.caller.ok
    /\ AccessControl_has_role(access_control,
                              RecordedAdmin(access_control, ret'.role),
                              ret'.caller.addr)

\* the account the call names holds the role the call names
NamedHolds(self) == AccessControl_has_role(self, ret'.role, ret'.addr)

(* C32: grant_role(r, a) and revoke_role(r, a) change the grants only when    *)
(* the caller holds the admin role of r when it calls (the bootstrap grant    *)
(* excepted); a caller who does not is answered AccessDenied and the access   *)
(* control stays as it was. A caller who holds the admin role is answered Ok, *)
(* and a holds r after the grant and not after the revoke; the role-admin map *)
(* is never changed by either. So after set_role_admin(r, r2) a holder of r2  *)
(* grants and revokes r, and a holder of DEFAULT_ADMIN alone is refused.      *)
C32_RoleAdminGuardsGrants ==
    [][IsGrantOrRevoke =>
        /\ (~CallerHoldsAdmin /\ ~IsBootstrapGrant =>
              ret'.res = "AccessDenied" /\ access_control' = access_control)
        /\ (access_control'.roles # access_control.roles =>
              CallerHoldsAdmin \/ IsBootstrapGrant)
        /\ (CallerHoldsAdmin =>
              /\ ret'.res = "Ok"
              /\ (IsCall("grant_role") => NamedHolds(access_control'))
              /\ (IsCall("revoke_role") => ~NamedHolds(access_control')))
        /\ access_control'.role_admins = access_control.role_admins]_vars

\* the admin role of DEPLOYER_ROLE was set to a role other than DEFAULT_ADMIN,
\* and a caller who holds that role but not DEFAULT_ADMIN made a grant of
\* DEPLOYER_ROLE that took effect
C32_Witness ==
    /\ ret.op = "grant_role" /\ ret.role = DEPLOYER_ROLE
    /\ ret.res = "Ok" /\ ret.changed /\ ret.caller.ok
    /\ RecordedAdmin(access_control, DEPLOYER_ROLE) # DEFAULT_ADMIN_ROLE
    /\ AccessControl_has_role(access_control,
                              RecordedAdmin(access_control, DEPLOYER_ROLE),
                              ret.caller.addr)
    /\ ~AccessControl_has_role(access_control, DEFAULT_ADMIN_ROLE, ret.caller.addr)
    /\ AccessControl_has_role(access_control, DEPLOYER_ROLE, ret.addr)
\* ---------------------------------------------------------------------------
\* The tracker when end_operation is never called
\* ---------------------------------------------------------------------------

\* Operations are started and time passes; none is ever ended. The tracker
\* starts empty, two short of full, or full.
InitAbandoned ==
    /\ InitRest
    /\ operation_tracker \in
          { OperationTracker_new,
            StartMany(OperationTracker_new, 1, PrefillActive, 0),
            StartMany(OperationTracker_new, 1, MAX_CONCURRENT_OPERATIONS, 0) }

NextAbandoned ==
    \/ \E addr \in TrackerAddrs, op \in TrackerOps : StartOperation(addr, op)
    \/ \E d \in TrackerTicks : TrackerTick(d)

SpecAbandoned == InitAbandoned /\ [][NextAbandoned]_vars

\* every active entry is more than OPERATION_TIMEOUT old
AllExpired ==
    \A a \in DOMAIN operation_tracker.active_operations :
        \A i \in 1..Len(operation_tracker.active_operations[a]) :
            now - operation_tracker.active_operations[a][i].start_time > OPERATION_TIMEOUT

\* the history entries that are more than OPERATION_TIMEOUT old
ExpiredStarts ==
    LET Old(e) == now - e[1] > OPERATION_TIMEOUT
    IN  Len(SelectSeq(operation_tracker.operation_history, Old))

(* C33: when end_operation is never called, a start_operation issued once     *)
(* every active entry is more than 30 s old is admitted, however many entries *)
(* there were (100 in all, 10 for the address): the call reaps them all, and  *)
(* its own entry is the only active one afterwards.                           *)
C33_AbandonedCapacityRecovered ==
    [][IsCall("start_operation") /\ AllExpired =>
        /\ ret'.res = "Ok" /\ ret'.admitted
        /\ TotalOperations(operation_tracker') = 1
        /\ ActiveOf(operation_tracker', ret'.addr) = 1]_vars

\* 100 operations were started and never ended, all more than 30 s ago (the
\* tracker was full, and the address of the first held 10), and a start has
\* been admitted since, as the only active entry
C33_Witness ==
    /\ ret.op = "start_operation" /\ ret.admitted /\ ret.addr = 1
    /\ ExpiredStarts = MAX_CONCURRENT_OPERATIONS
    /\ TotalOperations(operation_tracker) = 1
\* ---------------------------------------------------------------------------
\* The facade: a deployment that fails
\* ---------------------------------------------------------------------------

\* the diff log of addr
DiffLogOf(self, addr) ==
    IF addr \in DOMAIN self.diffs THEN self.diffs[addr] ELSE << >>

\* this step is a deploy_contract that returned an error
IsFailedDeploy == IsCall("deploy_contract") /\ ret'.res # "Ok"

(* C34: a deploy_contract that returns an error leaves the contract state,    *)
(* the snapshot list and the diff log of its address as they were before the  *)
(* call.                                                                      *)
C34_FailedDeployChangesNothing ==
    [][IsFailedDeploy =>
        /\ get_state(state_manager', ret'.addr) = get_state(state_manager, ret'.addr)
        /\ SnapshotsOf(state_manager', ret'.addr) = SnapshotsOf(state_manager, ret'.addr)
        /\ DiffLogOf(state_manager', ret'.addr) = DiffLogOf(state_manager, ret'.addr)]_vars

\* a deploy_contract to an address that holds a contract returned an error, and
\* the newest snapshot is labelled with the version that was refused: the
\* registry does not hold that version, the snapshot list does
C34_FailedDeploySnapshotted ==
    /\ ret.op = "deploy_contract" /\ ret.res \in {"VersionConflict", "UpgradeValidationError"}
    /\ SnapshotsOf(state_manager, ret.addr) # << >>
    /\ LET snaps == SnapshotsOf(state_manager, ret.addr)
       IN  snaps[Len(snaps)].version = ret.val
    /\ get_latest_version(registry, ret.addr).v # << >>
    /\ get_latest_version(registry, ret.addr).v[1].metadata.version # ret.val
    /\ Len(DiffLogOf(state_manager, ret.addr)) > 1
\* ---------------------------------------------------------------------------
\* The facade: execute_contract with a version argument
\* ---------------------------------------------------------------------------

MaxExecuteSteps == 3
MaxDeployed == 2
ExecuteMethods == {"add", "transfer"}
\* no version named, a deployed version, and a version never deployed
ExecuteVersionArgs == {<< >>, << <<1, 1, 0>> >>, << <<1, MaxDeployed, 0>> >>, << <<9, 9, 9>> >>}

\* the runtime of setup_runtime, with 0..MaxDeployed versions deployed at address 1
InitExecute ==
    /\ now = 0
    /\ TEST_SENDER = SetupSender
    /\ cfg_test \in BOOLEAN
    /\ \E n \in 0..MaxDeployed : SetRuntime0(DeployMany(SetupRuntime, 1, 1, n, 0))
    /\ ret = NoCall
    /\ steps = MaxFacadeSteps - MaxExecuteSteps
    /\ admin_granted = TRUE
    /\ upgraded = EmptyMap
    /\ tasks = NoTasks

\* execute_contract(addr, method, [1, 2], env, version)
ExecuteVersion(addr, method, version) ==
    /\ steps < MaxFacadeSteps
    /\ \E r \in {execute_contract(RT, addr, method, <<1, 2>>, U64(1000), version,
                                  sender(TEST_SENDER, cfg_test), now, TRUE)} :
           /\ SetRuntime(r.rt)
           /\ ret' = [FacadeReturned("execute_contract", addr, r) EXCEPT
                        !.val = <<version, method>>]
    /\ steps' = steps + 1
    /\ UNCHANGED <<cfg_test, tasks, now, TEST_SENDER, admin_granted, upgraded>>

NextExecute ==
    \/ \E a \in Callers : FacadeSetSender(a)
    \/ FacadeTick
    \/ \E addr \in ContractAddrs, method \in ExecuteMethods, version \in ExecuteVersionArgs :
          ExecuteVersion(addr, method, version)
    \/ \E addr \in ContractAddrs : UpdateContractState(addr, TestKey, TestValue)

SpecExecute == InitExecute /\ [][NextExecute]_vars

\* the version this execute_contract step selects: the one its version
\* argument names, else the newest
Selected ==
    IF ret'.val[1] # << >>
    THEN get_contract_version(registry, ret'.addr, ret'.val[1][1])
    ELSE get_latest_version(registry, ret'.addr)

\* this step is an execute_contract that passes the role check, the existence
\* check and version selection
IsExecuteWithVersion ==
    /\ IsCall("execute_contract") /\ ret'.admitted /\ ret'.caller.ok
    /\ AccessControl_has_role(access_control, EXECUTOR_ROLE, ret'.caller.addr)
    /\ ContractRuntime_validate_contract_state(RT, ret'.addr) = "Ok"
    /\ Selected.res = "Ok"

(* C35: an execute_contract that passes the role check, the existence check   *)
(* and version selection appends exactly one snapshot, equal to the current   *)
(* state and labelled with the selected version, whatever the call returns:   *)
(* it returns NotFound exactly when the method is not in the selected ABI,    *)
(* and the snapshot is there then too. The states and the diff log are left   *)
(* as they were.                                                              *)
C35_SnapshotBeforeLookup ==
    [][IsExecuteWithVersion =>
        LET before == SnapshotsOf(state_manager, ret'.addr)
            after == SnapshotsOf(state_manager', ret'.addr)
        IN  /\ Len(after) = Len(before) + 1
            /\ SubSeq(after, 1, Len(before)) = before
            /\ after[Len(after)].state = state_manager.states[ret'.addr]
            /\ after[Len(after)].version = Selected.v[1].metadata.version
            /\ (ret'.res = "NotFound"
                  <=> ret'.val[2] \notin MethodsOf(Selected.v[1].abi.methods))
            /\ state_manager'.states = state_manager.states
            /\ state_manager'.diffs = state_manager.diffs]_vars

\* an execute_contract that named a version older than the newest returned
\* NotFound for its method; the newest snapshot is labelled with the named
\* version and holds the current state, which was updated since the deployment
C35_Witness ==
    /\ ret.op = "execute_contract" /\ ret.res = "NotFound"
    /\ ret.val[1] # << >>
    /\ get_latest_version(registry, ret.addr).res = "Ok"
    /\ get_latest_version(registry, ret.addr).v[1].metadata.version # ret.val[1][1]
    /\ LET snaps == SnapshotsOf(state_manager, ret.addr)
       IN  /\ snaps # << >>
           /\ snaps[Len(snaps)].version = ret.val[1][1]
           /\ snaps[Len(snaps)].state = StateOf(state_manager, ret.addr)
           /\ TestKey \in DOMAIN snaps[Len(snaps)].state
\* ---------------------------------------------------------------------------
\* StateManager: what one update_state writes and logs
\* ---------------------------------------------------------------------------

\* the StateDiff an update of key k to v owes to the state old
ExpectedDiff(old, k, v) ==
    [added    |-> IF k \notin DOMAIN old THEN Put(EmptyMap, k, v) ELSE EmptyMap,
     modified |-> IF k \in DOMAIN old /\ old[k] # v
                  THEN Put(EmptyMap, k, <<old[k], v>>) ELSE EmptyMap,
     deleted  |-> EmptyMap]

(* C36: a successful update_state(addr, k, v) writes k -> v, leaves every     *)
(* other key of addr as it was and appends exactly one StateDiff to the diff  *)
(* log of addr: added = {k -> v} if k was absent, modified = {k -> (old, v)}  *)
(* if k held a different value, both empty if it held v, deleted empty. A     *)
(* rejected update_state leaves the states and the diff log as they were.     *)
C36_UpdateWritesAndLogs ==
    [][IsCall("update_state") =>
        LET old == StateOf(state_manager, ret'.addr)
            new == StateOf(state_manager', ret'.addr)
            k == ret'.val[1]
            v == ret'.val[2]
        IN  IF ret'.res = "Ok"
            THEN /\ DOMAIN new = DOMAIN old \cup {k}
                 /\ new[k] = v
                 /\ \A x \in DOMAIN old \ {k} : new[x] = old[x]
                 /\ DiffLogOf(state_manager', ret'.addr)
                       = Append(DiffLogOf(state_manager, ret'.addr), ExpectedDiff(old, k, v))
                 /\ \A a \in DOMAIN state_manager.diffs \ {ret'.addr} :
                       DiffLogOf(state_manager', a) = DiffLogOf(state_manager, a)
            ELSE /\ state_manager'.states = state_manager.states
                 /\ state_manager'.diffs = state_manager.diffs]_vars

\* an update that wrote the value the key held already has succeeded after an
\* update that changed the value of a key: the newest StateDiff is empty, the
\* one before it has the key under modified
C36_Witness ==
    /\ ret.op = "update_state" /\ ret.res = "Ok"
    /\ LET log == DiffLogOf(state_manager, ret.addr)
       IN  /\ Len(log) >= 2
           /\ log[Len(log)].added = EmptyMap /\ log[Len(log)].modified = EmptyMap
           /\ DOMAIN log[Len(log) - 1].modified # {}
           /\ log[Len(log) - 1].added = EmptyMap
\* ---------------------------------------------------------------------------
\* StateManager: the state and the replay of its diff log
\* ---------------------------------------------------------------------------

\* the map m after the StateDiff d: deleted keys gone, added and modified keys
\* at their new values
ApplyDiff(m, d) ==
    [k \in ((DOMAIN m) \ (DOMAIN d.deleted)) \cup (DOMAIN d.added) \cup (DOMAIN d.modified) |->
        IF k \in DOMAIN d.added THEN d.added[k]
        ELSE IF k \in DOMAIN d.modified THEN d.modified[k][2]
        ELSE m[k]]

\* the diffs of log applied in order to the map m
RECURSIVE Replay(_, _)
Replay(m, log) ==
    IF log = << >> THEN m ELSE Replay(ApplyDiff(m, Head(log)), Tail(log))

\* the state of addr is what its diff log replays to
ReplaysTo(self, addr) ==
    \A k \in DOMAIN StateOf(self, addr) \cup DOMAIN Replay(EmptyMap, DiffLogOf(self, addr)) :
        /\ k \in DOMAIN StateOf(self, addr)
        /\ k \in DOMAIN Replay(EmptyMap, DiffLogOf(self, addr))
        /\ StateOf(self, addr)[k] = Replay(EmptyMap, DiffLogOf(self, addr))[k]

(* C37: in every reachable state the current state of every contract equals   *)
(* the result of applying the diffs of its diff log, in order, to the empty   *)
(* map, also after restore_from_snapshot has replaced the state.              *)
C37_StateIsReplayOfDiffs ==
    \A a \in DOMAIN state_manager.states \cup DOMAIN state_manager.diffs :
        ReplaysTo(state_manager, a)

\* restore_from_snapshot has succeeded, and the state it restored is not what
\* the diff log replays to
C37_RestoredStateNotInLog ==
    /\ ret.op = "restore_from_snapshot" /\ ret.res = "Ok"
    /\ ~ReplaysTo(state_manager, ret.addr)
    /\ StateOf(state_manager, ret.addr) = state_manager.snapshots[ret.addr][ret.idx].state
\* ---------------------------------------------------------------------------
\* ContractRegistry on its own, from ContractRegistry::new()
\* ---------------------------------------------------------------------------

MaxRegistrySteps == 5
NumRegistryAddrs == 2
RegistryAddrs == 1..NumRegistryAddrs
RegistryVersions == {<<1, 0, 0>>, <<1, 1, 0>>, <<1, 2, 0>>}

InitRegistry ==
    /\ InitRest
    /\ operation_tracker = OperationTracker_new

RegisterVersion(addr, version) ==
    /\ steps < MaxRegistrySteps
    /\ \E r \in {register_version(registry, addr,
                                  [bytecode |-> TestBytecode,
                                   metadata |-> Metadata(version, now, now, TRUE),
                                   abi |-> TestABI])} :
           /\ registry' = r.self
           /\ ret' = [Returned("register_version", addr, r.res) EXCEPT !.val = version]
    /\ steps' = steps + 1
    /\ UNCHANGED <<cfg_test, tasks, now, TEST_SENDER, access_control, state_manager,
                   operation_tracker, admin_granted, upgraded>>

RollbackVersion(addr) ==
    /\ steps < MaxRegistrySteps
    /\ \E r \in {rollback_version(registry, addr)} :
           /\ registry' = r.self
           /\ ret' = Returned("rollback_version", addr, r.res)
    /\ steps' = steps + 1
    /\ UNCHANGED <<cfg_test, tasks, now, TEST_SENDER, access_control, state_manager,
                   operation_tracker, admin_granted, upgraded>>

NextRegistry ==
    \/ \E addr \in RegistryAddrs, version \in RegistryVersions : RegisterVersion(addr, version)
    \/ \E addr \in RegistryAddrs : RollbackVersion(addr)

SpecRegistry == InitRegistry /\ [][NextRegistry]_vars

\* the UpgradeRecords of addr that no rollback has marked
Unmarked(self, addr) ==
    {i \in 1..Len(UpgradeRecordsOf(self, addr)) :
        ~UpgradeRecordsOf(self, addr)[i].rollback_performed}

(* C38: after any sequence of register_version and rollback_version on an     *)
(* address, its version history is one longer than the number of its          *)
(* UpgradeRecords with rollback_performed = false.                            *)
C38_HistoryMatchesRecords ==
    \A a \in DOMAIN registry.versions :
        Len(registry.versions[a]) = 1 + Cardinality(Unmarked(registry, a))

\* two rollbacks have followed each other: one version is left, and of the two
\* records the newer is marked and the older, whose version is gone too, is not
C38_SecondRollbackMarksNothing ==
    /\ ret.op = "rollback_version" /\ ret.res = "Ok"
    /\ Len(registry.versions[ret.addr]) = 1
    /\ Len(UpgradeRecordsOf(registry, ret.addr)) = 2
    /\ Unmarked(registry, ret.addr) = {1}
    /\ UpgradeRecordsOf(registry, ret.addr)[1].to_version
          # registry.versions[ret.addr][1].metadata.version
\* ---------------------------------------------------------------------------
\* The facade with the tracker at its limits
\* ---------------------------------------------------------------------------

MaxAdmissionSteps == 3
\* one operation short of MAX_OPERATIONS_PER_SECOND
NearRate == MAX_OPERATIONS_PER_SECOND - 1

\* the runtime of setup_runtime whose tracker is empty, or full (address 1
\* holding 10 of the entries), or two entries short of full with address 1 at
\* its own limit, or has NearRate operations of this second in its history
InitAdmission ==
    /\ now = 0
    /\ TEST_SENDER = SetupSender
    /\ cfg_test \in BOOLEAN
    /\ \E tr \in { OperationTracker_new,
                   StartMany(OperationTracker_new, 1, MAX_CONCURRENT_OPERATIONS, 0),
                   StartMany(OperationTracker_new, 1, PrefillActive, 0),
                   StartEndMany(OperationTracker_new, 1, NearRate, 0) } :
          SetRuntime0([SetupRuntime EXCEPT !.operation_tracker = tr])
    /\ ret = NoCall
    /\ steps = MaxFacadeSteps - MaxAdmissionSteps
    /\ admin_granted = TRUE
    /\ upgraded = EmptyMap
    /\ tasks = NoTasks

NextAdmission ==
    \/ \E a \in Callers : FacadeSetSender(a)
    \/ \E addr \in ContractAddrs : Deploy(addr, <<1, 0, 0>>, TRUE)
    \/ \E addr \in ContractAddrs : Upgrade(addr, <<1, 1, 0>>, TRUE, FALSE, TRUE)
    \/ \E addr \in ContractAddrs : Execute(addr, "add")
    \/ \E addr \in ContractAddrs : Rollback(addr)
    \/ \E addr \in ContractAddrs : UpdateContractState(addr, TestKey, TestValue)

SpecAdmission == InitAdmission /\ [][NextAdmission]_vars

\* the tracker, once reaped, is at one of its three limits for addr
AtLimit(addr) ==
    \/ TotalOperations(Reaped) >= MAX_CONCURRENT_OPERATIONS
    \/ RecentOps(Reaped, now) >= MAX_OPERATIONS_PER_SECOND
    \/ ActiveOf(Reaped, addr) >= MAX_OPERATIONS_PER_CONTRACT

\* the caller of this step is identified and lacks the role of the operation
CallerLacksRole ==
    /\ ret'.op \in GuardedOps /\ ret'.caller.ok
    /\ ~AccessControl_has_role(access_control, RoleOf(ret'.op), ret'.caller.addr)

(* C39: every tracked facade operation asks for admission before it looks at  *)
(* the caller: at a tracker limit it returns ConcurrencyLimitExceeded         *)
(* whatever roles the caller holds and changes nothing but the reaping of the *)
(* tracker; below the limits a caller who lacks the role is refused for that, *)
(* and the call is then the newest entry of the operation history, so that    *)
(* one more operation counts as made within this second.                      *)
C39_AdmissionBeforeAuthorization ==
    [][ret'.seq = steps' /\ ret'.op \in FacadeOps =>
        /\ AtLimit(ret'.addr) =>
              /\ ret'.res = "ConcurrencyLimitExceeded"
              /\ operation_tracker' = Reaped
              /\ <<access_control, registry, state_manager>>'
                    = <<access_control, registry, state_manager>>
        /\ ~AtLimit(ret'.addr) /\ CallerLacksRole =>
              /\ ret'.res \in {"AccessDenied", "UpgradeAuthorizationError"}
              /\ operation_tracker'.operation_history
                    = Append(Reaped.operation_history,
                             <<now, OperationTypeOf(ret'.op)>>)
              /\ RecentOps(operation_tracker', now) = RecentOps(Reaped, now) + 1]_vars

\* a call was refused for the missing role, and with it MAX_OPERATIONS_PER_SECOND
\* operations were made within this second: the refused call took the last place
C39_Witness ==
    /\ ret.op \in GuardedOps /\ ret.res = "AccessDenied" /\ ret.caller.ok
    /\ ~AccessControl_has_role(access_control, RoleOf(ret.op), ret.caller.addr)
    /\ RecentOps(operation_tracker, now) = MAX_OPERATIONS_PER_SECOND
    /\ operation_tracker.operation_history[Len(operation_tracker.operation_history)]
          = <<ret.t, OperationTypeOf(ret.op)>>
\* ---------------------------------------------------------------------------
\* Tasks that set the ambient caller and then call the runtime
\* ---------------------------------------------------------------------------

NumSenderTasks == 2
SenderTasks == 1..NumSenderTasks
\* the calls a task makes after its set_sender (performance_test.rs 180-182:
\* grant_role, has_role, grant_role)
MaxTaskCalls == 3
\* an account that is not the caller of either build when the slot is empty
GrantTarget == NumCallers - 1
\* the roles the tasks grant and ask for
TaskRoles == {DEFAULT_ADMIN_ROLE, DEPLOYER_ROLE}
\* the accounts their grants and questions name
TaskAccounts == {ADMIN_ACCOUNT, GrantTarget}

\* the tasks as spawned, each with a runtime of its own (ContractRuntime::new()),
\* beside the runtime of setup_runtime; TEST_SENDER is the one slot of the
\* process
InitSenders ==
    /\ now = 0
    /\ TEST_SENDER = SetupSender
    /\ cfg_test \in BOOLEAN
    /\ SetRuntime0(SetupRuntime)
    /\ ret = NoCall
    /\ steps = 0
    /\ admin_granted = TRUE
    /\ upgraded = EmptyMap
    /\ tasks = [gate |-> 0,
                pc |-> [i \in SenderTasks |-> "spawned"],
                result |-> [i \in SenderTasks |-> "Pending"],
                read |-> [i \in SenderTasks |-> << >>],
                runtime |-> [i \in SenderTasks |-> ContractRuntime_new],
                calls |-> [i \in SenderTasks |-> 0]]

\* task i: set_sender(a), a its own address
TaskSetSender(i, a) ==
    /\ tasks.pc[i] = "spawned"
    /\ TEST_SENDER' = set_sender(TEST_SENDER, a)
    /\ tasks' = [tasks EXCEPT !.pc[i] = "set", !.read[i] = <<a>>]
    /\ steps' = steps + 1
    /\ UNCHANGED <<cfg_test, now, access_control, registry, state_manager, operation_tracker,
                   ret, admin_granted, upgraded>>

\* task i: runtime.grant_role(role, account) on its own runtime
TaskGrantRole(i, role, account) ==
    /\ tasks.pc[i] = "set"
    /\ tasks.calls[i] < MaxTaskCalls
    /\ \E r \in {ContractRuntime_grant_role(tasks.runtime[i], role, account,
                                            sender(TEST_SENDER, cfg_test))} :
           /\ ret' = [Returned("grant_role", account, r.res) EXCEPT
                        !.role = role, !.changed = r.val, !.idx = i]
           /\ tasks' = [tasks EXCEPT !.runtime[i] = r.rt, !.result[i] = r.res,
                                     !.calls[i] = @ + 1]
    /\ steps' = steps + 1
    /\ UNCHANGED <<cfg_test, now, TEST_SENDER, access_control, registry, state_manager,
                   operation_tracker, admin_granted, upgraded>>

\* task i: runtime.has_role(role, &account) on its own runtime
TaskHasRole(i, role, account) ==
    /\ tasks.pc[i] = "set"
    /\ tasks.calls[i] < MaxTaskCalls
    /\ ret' = [Returned("has_role", account, "Ok") EXCEPT
                 !.role = role, !.idx = i,
                 !.changed = ContractRuntime_has_role(tasks.runtime[i], role, account)]
    /\ tasks' = [tasks EXCEPT !.calls[i] = @ + 1]
    /\ steps' = steps + 1
    /\ UNCHANGED <<cfg_test, now, TEST_SENDER, access_control, registry, state_manager,
                   operation_tracker, admin_granted, upgraded>>

\* task i: runtime.deploy_contract(.., addr, .., version "1.0.0", ..) on its own
\* runtime, with the fixtures of tests/performance_test.rs
TaskDeploy(i, addr) ==
    /\ tasks.pc[i] = "set"
    /\ tasks.calls[i] < MaxTaskCalls
    /\ \E r \in {deploy_contract(tasks.runtime[i], create_test_contract, addr,
                                 create_test_abi, create_test_metadata(<<1, 0, 0>>, now),
                                 sender(TEST_SENDER, cfg_test), now)} :
           /\ ret' = [Returned("deploy_contract", addr, r.res) EXCEPT !.idx = i]
           /\ tasks' = [tasks EXCEPT !.runtime[i] = r.rt, !.result[i] = r.res,
                                     !.calls[i] = @ + 1]
    /\ steps' = steps + 1
    /\ UNCHANGED <<cfg_test, now, TEST_SENDER, access_control, registry, state_manager,
                   operation_tracker, admin_granted, upgraded>>

NextSenders ==
    \/ \E i \in SenderTasks, a \in Callers : TaskSetSender(i, a)
    \/ \E i \in SenderTasks, role \in TaskRoles, a \in TaskAccounts :
          TaskGrantRole(i, role, a)
    \/ \E i \in SenderTasks, role \in TaskRoles, a \in TaskAccounts :
          TaskHasRole(i, role, a)
    \/ \E i \in SenderTasks, addr \in ContractAddrs : TaskDeploy(i, addr)

SpecSenders == InitSenders /\ [][NextSenders]_vars

\* task i makes a call on its runtime in this step
TaskCalls(i) == tasks.pc[i] = "set" /\ tasks'.calls[i] = tasks.calls[i] + 1

\* the address task i set as the caller
OwnAddress(i) == tasks.read[i][1]

(* C40: a task that has set the ambient caller to its own address has its     *)
(* grant_role or deploy_contract authorized against that address, whatever    *)
(* the other tasks did in between: the caller the operation reads is the      *)
(* task's own, a grant succeeds exactly if it is the first grant of           *)
(* DEFAULT_ADMIN_ROLE or that address holds the admin role of the granted     *)
(* role, and a deployment by an address without DEPLOYER_ROLE is refused      *)
(* with AccessDenied.                                                         *)
C40_AuthorizedAsOwnTask ==
    [][\A i \in SenderTasks : TaskCalls(i) /\ ret'.op # "has_role" =>
        /\ ret'.caller.ok /\ ret'.caller.addr = OwnAddress(i)
        /\ (ret'.op = "grant_role" =>
               (ret'.res = "Ok"
                <=> \/ is_first_admin(tasks.runtime[i].access_control, ret'.role)
                    \/ AccessControl_has_role(
                           tasks.runtime[i].access_control,
                           get_role_admin(tasks.runtime[i].access_control, ret'.role),
                           OwnAddress(i))))
        /\ (ret'.op = "deploy_contract"
            /\ ~AccessControl_has_role(tasks.runtime[i].access_control, DEPLOYER_ROLE,
                                       OwnAddress(i)) =>
               ret'.res = "AccessDenied")]_vars

\* a task that set the address GrantTarget, which holds no admin role in the
\* task's runtime, has granted DEPLOYER_ROLE to it: the grant was authorized
\* against another address, the one another task set in between or the fixed
\* one of the build
C40_GrantedAsOtherTask ==
    \E i \in DOMAIN tasks.pc :
        /\ tasks.pc[i] = "set" /\ tasks.read[i] = <<GrantTarget>>
        /\ ret.op = "grant_role" /\ ret.idx = i /\ ret.res = "Ok" /\ ret.changed
        /\ ret.role = DEPLOYER_ROLE /\ ret.addr = GrantTarget
        /\ ret.caller.addr # GrantTarget
        /\ ~AccessControl_has_role(tasks.runtime[i].access_control, DEFAULT_ADMIN_ROLE,
                                   GrantTarget)
        /\ AccessControl_has_role(tasks.runtime[i].access_control, DEPLOYER_ROLE,
                                  GrantTarget)

\* ---------------------------------------------------------------------------
\* The facade when the ambient caller cannot be read
\* ---------------------------------------------------------------------------

MaxPoisonedSteps == 4

\* TEST_SENDER with its lock poisoned (a writer panicked under the guard): read()
\* and write() return Err, which sender, set_sender and clear_sender hand on
PoisonedSender == [SetupSender EXCEPT !.poisoned = TRUE]

\* the runtime of setup_runtime, the lock of TEST_SENDER poisoned since
InitPoisoned ==
    /\ now = 0
    /\ TEST_SENDER = PoisonedSender
    /\ cfg_test \in BOOLEAN
    /\ \E rt \in FacadeSetups : SetRuntime0(rt)
    /\ ret = NoCall
    /\ steps = MaxFacadeSteps - MaxPoisonedSteps
    /\ admin_granted = TRUE
    /\ upgraded = EmptyMap
    /\ tasks = NoTasks

NextPoisoned ==
    \/ \E a \in Callers : FacadeSetSender(a)
    \/ FacadeClearSender
    \/ FacadeTick
    \/ \E addr \in ContractAddrs, version \in UpgradeVersions :
          Deploy(addr, version, TRUE)
    \/ \E addr \in ContractAddrs : Upgrade(addr, <<1, 1, 0>>, TRUE, FALSE, TRUE)
    \/ \E addr \in ContractAddrs : Execute(addr, "add")
    \/ \E addr \in ContractAddrs : Rollback(addr)
    \/ \E addr \in ContractAddrs : UpdateContractState(addr, TestKey, TestValue)

SpecPoisoned == InitPoisoned /\ [][NextPoisoned]_vars

MaxOrderSteps == 4

\* the build metadata "1" and "01", the pre-release "alpha"
BuildOne == << <<49>> >>
BuildZeroOne == << <<48, 49>> >>
PreAlpha == << <<97, 108, 112, 104, 97>> >>

\* "1.0.0", "1.0.0+1", "1.0.0+01", "1.0.0-alpha", "1.1.0"
OrderVersions ==
    {<<1, 0, 0>>, <<1, 0, 0, << >>, BuildOne>>, <<1, 0, 0, << >>, BuildZeroOne>>,
     <<1, 0, 0, PreAlpha, << >> >>, <<1, 1, 0>>}

InitOrder ==
    /\ now = 0
    /\ TEST_SENDER = SetupSender
    /\ cfg_test \in BOOLEAN
    /\ \E rt \in FacadeSetups : SetRuntime0(rt)
    /\ ret = NoCall
    /\ steps = MaxFacadeSteps - MaxOrderSteps
    /\ admin_granted = TRUE
    /\ upgraded = EmptyMap
    /\ tasks = NoTasks

NextOrder ==
    \/ FacadeTick
    \/ \E addr \in ContractAddrs, version \in OrderVersions :
          Deploy(addr, version, TRUE)
    \/ \E addr \in ContractAddrs, version \in OrderVersions :
          Upgrade(addr, version, TRUE, FALSE, TRUE)
    \/ \E addr \in ContractAddrs : Rollback(addr)

SpecOrder == InitOrder /\ [][NextOrder]_vars

\* the versions of vs parse and increase strictly in semver precedence from
\* oldest to newest
StrictlyIncreasing(vs) ==
    \A i \in 1..(Len(vs) - 1) :
        /\ semver_parse(vs[i].metadata.version).ok
        /\ semver_parse(vs[i + 1].metadata.version).ok
        /\ cmp_precedence(semver_parse(vs[i].metadata.version),
                          semver_parse(vs[i + 1].metadata.version)) < 0

(* C4: every address present in the registry has a non-empty version        *)
(* history whose versions increase strictly under semver precedence from     *)
(* oldest to newest.                                                          *)
C4_VersionsIncrease ==
    \A addr \in DOMAIN registry.versions :
        /\ registry.versions[addr] # << >>
        /\ StrictlyIncreasing(registry.versions[addr])

\* a version was registered on one of equal precedence: the two differ in their
\* build metadata only
C4_EqualPrecedenceRegistered ==
    /\ ret.op \in {"deploy_contract", "upgrade_contract"} /\ ret.res = "Ok"
    /\ Len(registry.versions[ret.addr]) >= 2
    /\ LET vs == registry.versions[ret.addr]
           older == semver_parse(vs[Len(vs) - 1].metadata.version)
           newest == semver_parse(vs[Len(vs)].metadata.version)
       IN  /\ vs[Len(vs)].metadata.version = ret.val
           /\ older.ok /\ newest.ok
           /\ cmp_precedence(older, newest) = 0
           /\ older.build # newest.build

=============================================================================
